---- MODULE Spec2Model ----
(***************************************************************************)
(* Model of the document-generation pipeline of administrative_automation  *)
(* (src/app.py, with the stand-alone script versions in                    *)
(* src/unnamed/part_000).                                                  *)
(*                                                                         *)
(* Text is modelled as a sequence of characters; a character is a TLA+     *)
(* string.  A placeholder such as {{DOC_TITLE}} is a text of three         *)
(* characters <<"{{", "DOC_TITLE", "}}">>, so that it can be split over    *)
(* up to three runs.  A missing spreadsheet cell (pandas NaN) is the       *)
(* one-character text NaN, whose character occurs in no real text.         *)
(***************************************************************************)
EXTENDS Integers, Sequences, FiniteSets, TLC

VARIABLES
    pc,               \* position of the running operation
    rawA, rawB,       \* key normalization: two raw grouping-key cells
    cfg,              \* scope configuration looked up in config.json
    sheet,            \* the uploaded spreadsheet: [readable, header, rows]
    df,               \* the data frame held by generate_documents
    grouped,          \* df.groupby(ring_col): sorted sequence of [key, idx]
    current,          \* loop counter of generate_documents
    doc,              \* the in-memory document of the group being processed
    placeholder,      \* arguments of the running global_replace call
    replacement,
    generated_files,  \* list of saved output paths
    outdir,           \* output folder on disk: [exists, files]
    zip,              \* archive on disk: [exists, entries]
    result,           \* return value of generate_documents
    tpl,              \* the template file on disk: [ok, doc]
    logs,             \* the log list of generate_documents
    topology_images,  \* argument of generate_documents: entries per ring name
    docx,             \* the file at the path given to compress_docx: [bytes, size]
    disk,             \* what saving and recompressing give: [saved_size, new_size, fault, written]
    compressed,       \* the value compress_docx returned
    temp_dir,         \* the directory compress_docx works in: "none", "exists", "removed"
    history,          \* history.json: the list under "history", newest first
    config,           \* config.json: the scopes, a set of [key, data]
    uploads,          \* the files of the upload folder
    req,              \* the requests being served: a record of locals each
    clock,            \* entries created so far (ids and timestamps)
    pag_hostname,     \* arguments of find_nearest_cag
    topo_data,
    nearest_cag       \* the value find_nearest_cag returned

vars == <<pc, rawA, rawB, cfg, sheet, df, grouped, current, doc, placeholder,
          replacement, generated_files, outdir, zip, result, tpl, logs,
          topology_images, docx, disk, compressed, temp_dir, history, config,
          uploads, req, clock, pag_hostname, topo_data, nearest_cag>>

\* the state of the routes around generate_documents: the JSON stores, the
\* upload folder, the requests, the chain lookup
web_vars == <<history, config, uploads, req, clock, pag_hostname, topo_data, nearest_cag>>

(***************************************************************************)
(* Bounds of the model.                                                    *)
(***************************************************************************)
MaxKeyLen == 3        \* length of a raw grouping key before padding
MaxPad == 2           \* whitespace characters added to a raw key
MaxRuns == 3          \* runs of a paragraph
MaxRows == 3          \* rows of the spreadsheet
MaxTplRows == 2       \* body rows the template table has before it is filled
MaxSize == 3          \* size of a saved file, in megabytes

(***************************************************************************)
(* Text helpers.                                                           *)
(***************************************************************************)
NaN == <<"NaN">>

Whitespace == {" ", "\t"}

RECURSIVE SeqsUpTo(_, _)
SeqsUpTo(S, n) ==
    IF n = 0 THEN {<<>>}
    ELSE LET shorter == SeqsUpTo(S, n - 1)
         IN  shorter \cup {Append(s, c) : s \in {t \in shorter : Len(t) = n - 1}, c \in S}

RECURSIVE Concat(_)
Concat(ss) == IF ss = <<>> THEN <<>> ELSE Head(ss) \o Concat(Tail(ss))

\* p occurs in s starting at position i (1-based)
OccursAt(s, p, i) ==
    /\ i >= 1
    /\ i + Len(p) - 1 <= Len(s)
    /\ \A j \in 1..Len(p) : s[i + j - 1] = p[j]

\* Python's `p in s`
Contains(s, p) == \E i \in 1..(Len(s) + 1) : OccursAt(s, p, i)

\* Python's s.replace(p, x): every non-overlapping occurrence, left to right
RECURSIVE StrReplace(_, _, _)
StrReplace(s, p, x) ==
    IF s = <<>> THEN (IF p = <<>> THEN x ELSE <<>>)
    ELSE IF p # <<>> /\ OccursAt(s, p, 1)
         THEN x \o StrReplace(SubSeq(s, Len(p) + 1, Len(s)), p, x)
         ELSE <<Head(s)>> \o StrReplace(Tail(s), p, x)

(***************************************************************************)
(* Grouping-key normalization (app.py 289-291).                            *)
(***************************************************************************)
\* Series.fillna('')
Fillna(v) == IF v = NaN THEN <<>> ELSE v

RECURSIVE LStrip(_)
LStrip(s) == IF s # <<>> /\ Head(s) \in Whitespace THEN LStrip(Tail(s)) ELSE s

RECURSIVE RStrip(_)
RStrip(s) ==
    IF s # <<>> /\ s[Len(s)] \in Whitespace THEN RStrip(SubSeq(s, 1, Len(s) - 1)) ELSE s

\* str.strip()
Strip(s) == RStrip(LStrip(s))

\* str.replace(r'\s+', ' ', regex=True): each maximal whitespace run becomes
\* one space
RECURSIVE CollapseSpaces(_)
CollapseSpaces(s) ==
    IF s = <<>> THEN <<>>
    ELSE IF Head(s) \in Whitespace
         THEN <<" ">> \o CollapseSpaces(LStrip(s))
         ELSE <<Head(s)>> \o CollapseSpaces(Tail(s))

\* the script version (part_000 line 412) only strips, and keeps NaN
NormalizeKeyStripOnly(v) == IF v = NaN THEN NaN ELSE Strip(v)

NormalizeKeyNoFillna(v) == IF v = NaN THEN NaN ELSE CollapseSpaces(Strip(v))

NormalizeKey(v) == CollapseSpaces(Strip(Fillna(v)))

(***************************************************************************)
(* Data frame and groupby (app.py 274-275, 290-297).                       *)
(***************************************************************************)
RingCol == <<"Ring">>
TitleCol == <<"Title">>
HostCol == <<"Host">>

\* Python compares strings by code point
Ord(c) ==
    CASE c = "\t" -> 9
      [] c = " " -> 32
      [] c = "A" -> 65
      [] c = "B" -> 66
      [] OTHER -> 90

LexLess(a, b) ==
    \E i \in 1..(Len(a) + 1) :
        /\ \A j \in 1..(i - 1) : j <= Len(b) /\ a[j] = b[j]
        /\ \/ i = Len(a) + 1 /\ Len(b) >= i
           \/ i <= Len(a) /\ i <= Len(b) /\ Ord(a[i]) < Ord(b[i])

\* df[ring_col] = df[ring_col].fillna('').astype(str).str.strip()
\*                               .str.replace(r'\s+', ' ', regex=True)
NormalizeRingCol(d, col) ==
    [d EXCEPT !.rows = [i \in DOMAIN d.rows |->
                            [d.rows[i] EXCEPT ![col] = NormalizeKey(@)]]]

\* groupby drops the rows whose key is NaN (dropna=True)
GroupKeys(d, col) == {d.rows[i][col] : i \in DOMAIN d.rows} \ {NaN}

RECURSIVE SortKeys(_)
SortKeys(S) ==
    IF S = {} THEN <<>>
    ELSE LET m == CHOOSE x \in S : \A y \in S \ {x} : LexLess(x, y)
         IN  <<m>> \o SortKeys(S \ {m})

\* groupby(sort=False): keys in order of first appearance
RECURSIVE AppearanceKeys(_, _, _)
AppearanceKeys(d, col, i) ==
    IF i > Len(d.rows) THEN <<>>
    ELSE LET k == d.rows[i][col]
         IN  IF k = NaN \/ \E j \in 1..(i - 1) : d.rows[j][col] = k
             THEN AppearanceKeys(d, col, i + 1)
             ELSE <<k>> \o AppearanceKeys(d, col, i + 1)

GroupOrderUnsorted(d, col) == AppearanceKeys(d, col, 1)

\* groupby(sort=True): keys ascending
GroupOrder(d, col) == SortKeys(GroupKeys(d, col))

RowIndex(d) == [i \in 1..Len(d.rows) |-> i]

\* the (group_name, group_data) pairs that iterating the groupby yields;
\* group_data is kept as the original row positions, in row order
GroupBy(d, col) ==
    LET keys == GroupOrder(d, col)
    IN  [k \in 1..Len(keys) |->
            [key |-> keys[k],
             idx |-> SelectSeq(RowIndex(d), LAMBDA i : d.rows[i][col] = keys[k])]]

(***************************************************************************)
(* Documents.  A paragraph is the sequence of its runs' texts (one text    *)
(* node per run).  A document has body paragraphs, tables (rows of cells,  *)
(* one paragraph per cell), paragraphs of floating containers (text boxes, *)
(* floating tables: in the body's XML tree, not in doc.paragraphs or       *)
(* doc.tables) and the paragraphs of the header and footer variants.       *)
(***************************************************************************)
EmptyDoc ==
    [body |-> <<>>, tables |-> <<>>, floating |-> <<>>, headers |-> <<>>, pictures |-> <<>>]

\* para.text
ParaText(para) == Concat(para)

\* every paragraph of the document, wherever it is
CellParas(d) ==
    UNION {UNION {{d.tables[t].rows[r][c] : c \in DOMAIN d.tables[t].rows[r]} :
                     r \in DOMAIN d.tables[t].rows} : t \in DOMAIN d.tables}

AllParas(d) ==
    {d.body[i] : i \in DOMAIN d.body} \cup CellParas(d)
        \cup {d.floating[i] : i \in DOMAIN d.floating}
        \cup {d.headers[i] : i \in DOMAIN d.headers}

(***************************************************************************)
(* Placeholder substitution (app.py 89-148).                               *)
(***************************************************************************)
\* xpath_replace restricted to the text nodes of one paragraph: each node
\* that holds the placeholder whole is rewritten, nothing else
XpathReplacePara(para, ph, rep) ==
    [i \in DOMAIN para |->
        IF para[i] # <<>> /\ Contains(para[i], ph)
        THEN StrReplace(para[i], ph, rep) ELSE para[i]]

\* replace_placeholder_in_paragraph
ReplaceInParagraph(para, ph, rep) ==
    LET full_text == Concat(para)
        whole == {i \in DOMAIN para : para[i] # <<>> /\ Contains(para[i], ph)}
    IN  IF ~Contains(full_text, ph) THEN para
        ELSE IF whole # {}
             THEN LET first == CHOOSE i \in whole : \A j \in whole : i <= j
                  IN  [para EXCEPT ![first] = StrReplace(para[first], ph, rep)]
             ELSE [i \in DOMAIN para |->
                      IF i = 1 THEN StrReplace(full_text, ph, rep) ELSE <<>>]

\* the loop body of global_replace over a sequence of paragraphs
ReplaceParagraphs(paras, ph, rep) ==
    [i \in DOMAIN paras |->
        IF Contains(ParaText(paras[i]), ph)
        THEN ReplaceInParagraph(paras[i], ph, rep) ELSE paras[i]]

\* xpath_replace over the text nodes of a sequence of paragraphs
XpathReplaceParagraphs(paras, ph, rep) ==
    [i \in DOMAIN paras |-> XpathReplacePara(paras[i], ph, rep)]

\* global_replace, first loop: doc.paragraphs
ReplaceBodyParagraphs(d, ph, rep) ==
    [d EXCEPT !.body = ReplaceParagraphs(d.body, ph, rep)]

\* global_replace, second loop: doc.tables, row by row, cell by cell
ReplaceTableParagraphs(d, ph, rep) ==
    [d EXCEPT !.tables =
        [t \in DOMAIN d.tables |->
            [d.tables[t] EXCEPT !.rows =
                [r \in DOMAIN d.tables[t].rows |->
                    ReplaceParagraphs(d.tables[t].rows[r], ph, rep)]]]]

\* global_replace: xpath_replace(doc.element.body, ...), every text node of
\* the body tree
XpathReplaceBody(d, ph, rep) ==
    [d EXCEPT !.body = XpathReplaceParagraphs(d.body, ph, rep),
              !.tables =
                  [t \in DOMAIN d.tables |->
                      [d.tables[t] EXCEPT !.rows =
                          [r \in DOMAIN d.tables[t].rows |->
                              XpathReplaceParagraphs(d.tables[t].rows[r], ph, rep)]]],
              !.floating = XpathReplaceParagraphs(d.floating, ph, rep)]

\* global_replace, last loop: the header and footer variants of each section
XpathReplaceHeadersFooters(d, ph, rep) ==
    [d EXCEPT !.headers = XpathReplaceParagraphs(d.headers, ph, rep)]

GlobalReplace(d, ph, rep) ==
    XpathReplaceHeadersFooters(
        XpathReplaceBody(
            ReplaceTableParagraphs(
                ReplaceBodyParagraphs(d, ph, rep), ph, rep), ph, rep), ph, rep)

(***************************************************************************)
(* Values of the variables an operation does not use.                      *)
(***************************************************************************)
NoCfg == [found |-> FALSE]
NoFrame == [cols |-> {}, rows |-> <<>>]
NoSheet == [readable |-> FALSE, header |-> {}, rows |-> <<>>]
NoDir == [exists |-> FALSE, files |-> <<>>]
NoZip == [exists |-> FALSE, entries |-> <<>>]
NoResult == [returned |-> FALSE, zip_path |-> FALSE, error |-> "", count |-> 0]
NoTemplate == [ok |-> FALSE, doc |-> EmptyDoc]
NoFile == [bytes |-> "none", size |-> 0]
NoDisk == [saved_size |-> 0, new_size |-> 0, fault |-> "none", written |-> 0]
NoReturn == [returned |-> FALSE, compressed |-> FALSE, orig_size |-> 0, new_size |-> 0]

\* None, and what find_nearest_cag holds before it returns
NoCag == [returned |-> FALSE, found |-> FALSE, host |-> <<>>]

StoresIdle ==
    /\ history = <<>> /\ config = {} /\ uploads = {} /\ req = <<>> /\ clock = 0
    /\ pag_hostname = <<>> /\ topo_data = <<>> /\ nearest_cag = NoCag

PipelineIdle ==
    /\ cfg = NoCfg /\ sheet = NoSheet /\ current = 0 /\ generated_files = <<>>
    /\ outdir = NoDir /\ zip = NoZip /\ result = NoResult
    /\ logs = <<>> /\ topology_images = {} /\ docx = NoFile /\ disk = NoDisk
    /\ compressed = NoReturn /\ temp_dir = "none" /\ StoresIdle

(***************************************************************************)
(* Key normalization on its own: two raw grouping-key cells, the second    *)
(* obtained from the first by typing stray whitespace around it or next to *)
(* whitespace it already has, are normalized and grouped as a two-row      *)
(* frame.                                                                  *)
(***************************************************************************)
KeyAlphabet == {" ", "\t", "A", "B"}

KeyRow(k) == [c \in {RingCol} |-> k]

InsertAt(s, i, c) == SubSeq(s, 1, i) \o <<c>> \o SubSeq(s, i + 1, Len(s))

\* position i of s (between s[i] and s[i+1]) is an end of s or touches whitespace
NextToWhitespace(s, i) ==
    IF i = 0 \/ i = Len(s) THEN TRUE
    ELSE s[i] \in Whitespace \/ s[i + 1] \in Whitespace

InitKey ==
    /\ pc = "key_raw"
    /\ rawA \in SeqsUpTo(KeyAlphabet, MaxKeyLen)
    /\ rawB = rawA
    /\ df = NoFrame /\ grouped = <<>> /\ doc = EmptyDoc /\ tpl = NoTemplate
    /\ placeholder = <<>> /\ replacement = <<>>
    /\ PipelineIdle

\* a stray whitespace character is typed in front, at the end, or next to a
\* whitespace character of the cell
PadKey ==
    /\ pc = "key_raw"
    /\ Len(rawB) < Len(rawA) + MaxPad
    /\ \E c \in Whitespace, i \in 0..Len(rawB) :
          /\ NextToWhitespace(rawB, i)
          /\ rawB' = InsertAt(rawB, i, c)
    /\ UNCHANGED <<pc, rawA, cfg, sheet, df, grouped, current, doc, placeholder,
                   replacement, generated_files, outdir, zip, result, tpl,
                   logs, topology_images, temp_dir, web_vars, docx, disk, compressed>>

\* app.py 290-297 on the frame of the two cells
NormalizeKeys ==
    /\ pc = "key_raw"
    /\ pc' = "key_done"
    /\ df' = NormalizeRingCol([cols |-> {RingCol},
                               rows |-> <<KeyRow(rawA), KeyRow(rawB)>>], RingCol)
    /\ grouped' = GroupBy(df', RingCol)
    /\ UNCHANGED <<rawA, rawB, cfg, sheet, current, doc, placeholder,
                   replacement, generated_files, outdir, zip, result, tpl,
                   logs, topology_images, temp_dir, web_vars, docx, disk, compressed>>

NextKey == PadKey \/ NormalizeKeys

SpecKey == InitKey /\ [][NextKey]_vars

(***************************************************************************)
(* global_replace on its own: a document holding one paragraph, in the     *)
(* body, in a table cell, in a floating container or in a header/footer.   *)
(***************************************************************************)
DOC_TITLE == <<"{{", "DOC_TITLE", "}}">>

RunTexts ==
    {<<>>, <<"x">>, <<"{{">>, <<"DOC_TITLE">>, <<"}}">>, <<"{{", "DOC_TITLE">>,
     <<"DOC_TITLE", "}}">>, DOC_TITLE, DOC_TITLE \o <<"{{">>}

Paragraphs == UNION {[1..n -> RunTexts] : n \in 0..MaxRuns}

Locations == {"body", "table", "floating", "header"}

DocWith(para, loc) ==
    CASE loc = "body" -> [EmptyDoc EXCEPT !.body = <<para>>]
      [] loc = "table" -> [EmptyDoc EXCEPT !.tables = <<[cols |-> 1, rows |-> <<<<para>>>>]>>]
      [] loc = "floating" -> [EmptyDoc EXCEPT !.floating = <<para>>]
      [] loc = "header" -> [EmptyDoc EXCEPT !.headers = <<para>>]

InitReplace ==
    /\ pc = "gr_paragraphs"
    /\ \E para \in Paragraphs, loc \in Locations :
          tpl = [ok |-> TRUE, doc |-> DocWith(para, loc)]
    /\ doc = tpl.doc
    /\ placeholder = DOC_TITLE
    /\ replacement = <<"X">>
    /\ rawA = <<>> /\ rawB = <<>> /\ df = NoFrame /\ grouped = <<>>
    /\ PipelineIdle

ReplaceFrame ==
    UNCHANGED <<rawA, rawB, cfg, sheet, df, grouped, current, placeholder,
                replacement, generated_files, outdir, zip, result, tpl,
                   logs, topology_images, temp_dir, web_vars, docx, disk, compressed>>

GR_Paragraphs ==
    /\ pc = "gr_paragraphs"
    /\ doc' = ReplaceBodyParagraphs(doc, placeholder, replacement)
    /\ pc' = "gr_tables"
    /\ ReplaceFrame

GR_Tables ==
    /\ pc = "gr_tables"
    /\ doc' = ReplaceTableParagraphs(doc, placeholder, replacement)
    /\ pc' = "gr_body_xml"
    /\ ReplaceFrame

GR_BodyXml ==
    /\ pc = "gr_body_xml"
    /\ doc' = XpathReplaceBody(doc, placeholder, replacement)
    /\ pc' = "gr_headers"
    /\ ReplaceFrame

GR_HeadersFooters ==
    /\ pc = "gr_headers"
    /\ doc' = XpathReplaceHeadersFooters(doc, placeholder, replacement)
    /\ pc' = "gr_done"
    /\ ReplaceFrame

NextReplace == GR_Paragraphs \/ GR_Tables \/ GR_BodyXml \/ GR_HeadersFooters

SpecReplace == InitReplace /\ [][NextReplace]_vars

(***************************************************************************)
(* generate_documents (app.py 235-458): inputs.                            *)
(***************************************************************************)
DOC_DATE == <<"{{", "DOC_DATE", "}}">>
CHANGE_TIME == <<"{{", "CHANGE_TIME", "}}">>
CHANGE_SCOPE == <<"{{", "CHANGE_SCOPE", "}}">>
CHANGE_RING_121 == <<"{{", "CHANGE_RING_121", "}}">>

\* the scope configuration stored in config.json
ScopeCfg ==
    [found |-> TRUE,
     table_keyword |-> <<"Host">>,
     title_col |-> TitleCol,
     ring_col |-> RingCol,
     columns_mapping |-> <<RingCol, HostCol>>,
     has_topology_image |-> FALSE]

SheetRow(ring, title, host) ==
    (RingCol :> ring) @@ (TitleCol :> title) @@ (HostCol :> host)

\* the rows a spreadsheet is made of; dtype=str reads an empty cell as NaN
\* and a cell of blanks as the blanks
RowKinds ==
    {SheetRow(<<"A">>, <<"T">>, <<"h">>),
     SheetRow(<<"A", " ">>, <<" ">>, NaN),
     SheetRow(<<"B">>, <<"V">> \o DOC_DATE, <<"g">>),
     SheetRow(NaN, NaN, <<"h">>),
     SheetRow(<<"B">>, <<"T", ":">>, <<"n", "A", "N">>)}

SheetRows == UNION {[1..n -> RowKinds] : n \in 0..MaxRows}

ReqCols == {RingCol, TitleCol, HostCol}

\* header rows: complete, complete with a padded name, or lacking a column
PaddedHeader == {RingCol, <<" ", "Title", " ">>, HostCol}
Headers == {ReqCols, PaddedHeader} \cup {ReqCols \ {c} : c \in ReqCols}

TextCell(t) == <<t>>

HeaderRow(cols) ==
    IF cols = 2 THEN <<TextCell(<<"Ring">>), TextCell(<<"Host">>)>>
    ELSE <<TextCell(<<"No">>), TextCell(<<"Ring">>), TextCell(<<"Host">>)>>

OldRow(cols) == [c \in 1..cols |-> TextCell(<<"old">>)]

\* a template: title in the body, date in a header, and the data table with
\* `cols` columns and `n` body rows left over from authoring
TemplateDoc(cols, n) ==
    [body |-> <<<<DOC_TITLE>>, <<<<"Time: ">>, CHANGE_TIME>>,
                <<<<"{{">>, <<"CHANGE_SCOPE">>, <<"}}">>>>>>,
     tables |-> <<[cols |-> cols,
                   rows |-> <<HeaderRow(cols)>> \o [r \in 1..n |-> OldRow(cols)]]>>,
     floating |-> <<<<CHANGE_RING_121>>>>,
     headers |-> <<<<DOC_DATE>>>>,
     pictures |-> <<>>]

(***************************************************************************)
(* generate_documents: helpers.                                            *)
(***************************************************************************)
UnsafeChars == {"\\", "/", "*", "?", ":", "\"", "<", ">", "|"}

\* re.sub(r'[\\/*?:"<>|]', "", filename)
SanitizeFilename(name) == SelectSeq(name, LAMBDA c : c \notin UnsafeChars)

\* raw_title / doc_title of a group (app.py 307-308)
DocTitle(d, c, g) ==
    LET raw_title == d.rows[g.idx[1]][c.title_col]
    IN  IF raw_title # NaN THEN raw_title ELSE <<"Doc - ">> \o g.key

\* the base name of a group's output file (app.py 437-438)
OutputName(d, c, g) == SanitizeFilename(DocTitle(d, c, g))

Digits == <<"0", "1", "2", "3", "4", "5", "6", "7", "8", "9">>

\* str(n) for n >= 0
RECURSIVE IntToText(_)
IntToText(n) ==
    IF n < 10 THEN <<Digits[n + 1]>>
    ELSE IntToText(n \div 10) \o <<Digits[(n % 10) + 1]>>

LowerChar(c) ==
    CASE c = "N" -> "n"
      [] c = "A" -> "a"
      [] c = "B" -> "b"
      [] c = "T" -> "t"
      [] c = "U" -> "u"
      [] c = "V" -> "v"
      [] OTHER -> c

\* str.lower()
Lower(t) == [i \in DOMAIN t |-> LowerChar(t[i])]

\* str(value): NaN prints as "nan"
StrOf(v) == IF v = NaN THEN <<"n", "a", "n">> ELSE v

\* a guard that compares without lowering the text
CellValueCaseSensitive(v) == IF StrOf(v) = <<"n", "a", "n">> THEN <<>> ELSE StrOf(v)

\* val = str(row.get(col_name, '')); if val.lower() == 'nan': val = ''
CellValue(v) == IF Lower(StrOf(v)) = <<"n", "a", "n">> THEN <<>> ELSE StrOf(v)

\* cell.text
CellText(cell) == Concat(cell)

\* " ".join([cell.text for cell in cells])
RECURSIVE JoinCells(_)
JoinCells(cells) ==
    IF cells = <<>> THEN <<>>
    ELSE IF Len(cells) = 1 THEN CellText(cells[1])
         ELSE CellText(cells[1]) \o <<" ">> \o JoinCells(Tail(cells))

\* a search that keeps the last table whose header row holds the keyword
TargetTableLast(d, keyword) ==
    LET hits == {t \in DOMAIN d.tables :
                    /\ Len(d.tables[t].rows) > 0
                    /\ Contains(JoinCells(d.tables[t].rows[1]), keyword)}
    IN  IF hits = {} THEN 0 ELSE CHOOSE t \in hits : \A u \in hits : t >= u

\* index of the first table whose header row text holds the keyword, or 0
TargetTable(d, keyword) ==
    LET hits == {t \in DOMAIN d.tables :
                    /\ Len(d.tables[t].rows) > 0
                    /\ Contains(JoinCells(d.tables[t].rows[1]), keyword)}
    IN  IF hits = {} THEN 0 ELSE CHOOSE t \in hits : \A u \in hits : t <= u

\* a loop that stops one row early
ClearBodyRowsButFirst(table) == [table EXCEPT !.rows = SubSeq(@, 1, IF Len(@) > 1 THEN 2 ELSE Len(@))]

\* for i in range(len(rows)-1, 0, -1): remove rows[i]
ClearBodyRows(table) == [table EXCEPT !.rows = SubSeq(@, 1, 1)]

\* a shift that is never applied
StartDataIdxNoShift(ncells, nmapped) == 0

\* start_data_idx (app.py 418-421)
StartDataIdx(ncells, nmapped) == IF ncells > nmapped THEN 1 ELSE 0

\* the row that table.add_row() and the cell assignments produce for the
\* record at position `ordinal` (1-based) of its group
FilledRow(ncells, rec, ordinal, cols_to_fill) ==
    LET start_data_idx == StartDataIdx(ncells, Len(cols_to_fill))
    IN  [k \in 1..ncells |->
            LET i == k - start_data_idx
            IN  IF i \in 1..Len(cols_to_fill)
                THEN TextCell(CellValue(rec[cols_to_fill[i]]))
                ELSE IF ncells > Len(cols_to_fill) /\ k = 1
                     THEN TextCell(IntToText(ordinal))
                     ELSE <<>>]

\* app.py 404-435 on the target table
FillTable(table, d, g, cols_to_fill) ==
    LET cleared == ClearBodyRows(table)
    IN  [cleared EXCEPT !.rows =
            @ \o [r \in 1..Len(g.idx) |->
                     FilledRow(table.cols, d.rows[g.idx[r]], r, cols_to_fill)]]

\* a materializer that falls back to the first table of the document
MaterializeTableFirstTable(dc, c, d, g) ==
    LET t == IF TargetTable(dc, c.table_keyword) = 0 THEN 1
             ELSE TargetTable(dc, c.table_keyword)
    IN  [dc EXCEPT !.tables[t] = FillTable(@, d, g, c.columns_mapping)]

\* app.py 396-435
MaterializeTable(dc, c, d, g) ==
    LET t == TargetTable(dc, c.table_keyword)
    IN  IF t = 0 THEN dc
        ELSE [dc EXCEPT !.tables[t] = FillTable(@, d, g, c.columns_mapping)]

(***************************************************************************)
(* Topology image of a group (app.py 357-394).                             *)
(***************************************************************************)
TOPOLOGY_IMAGE == <<"{{", "TOPOLOGY_IMAGE", "}}">>

\* the text written where no image is available (app.py 393)
NoImageText == <<"[Gambar topologi tidak tersedia]">>

\* a scope whose documents carry a topology image
ImageScopeCfg == [ScopeCfg EXCEPT !.has_topology_image = TRUE]

\* an entry of the topology_images mapping: the ring name, whether the
\* mapped file exists and whether it is an image add_picture can read
ImageEntry(key, exists, valid) ==
    [key |-> key, exists |-> exists, valid |-> valid, path |-> <<"topology of ">> \o key]

\* the mappings a caller passes
TopologyMaps ==
    {{},
     {ImageEntry(<<"A">>, TRUE, TRUE)},
     {ImageEntry(<<"A">>, FALSE, TRUE)},
     {ImageEntry(<<"A">>, TRUE, FALSE)},
     {ImageEntry(<<"A">>, TRUE, TRUE), ImageEntry(<<"B">>, TRUE, TRUE)}}

\* topology_images.get(str(group_name)) as a set of at most one entry
ImageFor(images, key) == {e \in images : e.key = key}

\* '{{TOPOLOGY_IMAGE}}' in para.text
HasImagePlaceholder(para) == Contains(ParaText(para), TOPOLOGY_IMAGE)

\* para.clear(); run = para.add_run(): one run without text
ClearedPara == <<<<>>>>

\* the drawing run.add_picture leaves in the run of a body paragraph
\* (t = r = 0) or of the cell (t, r, c)
Picture(loc, t, r, c, path, width) ==
    [loc |-> loc, t |-> t, r |-> r, c |-> c, image |-> path, width |-> width]

\* a log entry
Log(tag, about) == [tag |-> tag, about |-> about]

BodyHits(dc) == {i \in DOMAIN dc.body : HasImagePlaceholder(dc.body[i])}

CellHits(row) == {c \in DOMAIN row : HasImagePlaceholder(row[c])}

RowHits(table) == {r \in DOMAIN table.rows : CellHits(table.rows[r]) # {}}

TableHits(dc) == {t \in DOMAIN dc.tables : RowHits(dc.tables[t]) # {}}

Least(S) == CHOOSE i \in S : \A j \in S : i <= j

\* the elements of a set of positions in ascending order
Ascending(S) ==
    IF S = {} THEN <<>>
    ELSE LET top == CHOOSE i \in S : \A j \in S : j <= i
         IN  SelectSeq([i \in 1..top |-> i], LAMBDA i : i \in S)

\* the cells of a row that the inner loops of app.py 380-388 fill: the
\* `break` leaves the paragraph loop only, so every cell of the row that
\* holds the placeholder is visited
FilledCells(row) == Ascending(CellHits(row))

\* app.py 360-390: the try block, for an image file that exists.  The value
\* is the document and the log entries written.
InsertTopologyImage(dc, image, key) ==
    IF BodyHits(dc) # {}
    THEN LET i == Least(BodyHits(dc))
         IN  IF image.valid
             THEN [doc |-> [dc EXCEPT !.body[i] = ClearedPara,
                                      !.pictures = Append(@, Picture("body", 0, 0, i, image.path, "6"))],
                   logs |-> <<Log("IMAGE", key)>>]
             ELSE [doc |-> [dc EXCEPT !.body[i] = ClearedPara],
                   logs |-> <<Log("WARN", key)>>]
    ELSE IF TableHits(dc) = {} THEN [doc |-> dc, logs |-> <<>>]
    ELSE LET t == Least(TableHits(dc))
             r == Least(RowHits(dc.tables[t]))
             cs == FilledCells(dc.tables[t].rows[r])
         IN  IF image.valid
             THEN [doc |-> [dc EXCEPT
                              !.tables[t].rows[r] =
                                  [c \in DOMAIN @ |->
                                      IF \E k \in DOMAIN cs : cs[k] = c
                                      THEN ClearedPara ELSE @[c]],
                              !.pictures =
                                  @ \o [k \in DOMAIN cs |->
                                           Picture("table", t, r, cs[k], image.path, "5.5")]],
                   logs |-> [k \in DOMAIN cs |-> Log("IMAGE", key)]]
             ELSE [doc |-> [dc EXCEPT !.tables[t].rows[r][cs[1]] = ClearedPara],
                   logs |-> <<Log("WARN", key)>>]

\* app.py 357-394: the value is the document and the log entries written
TopologyImageStep(dc, c, images, key) ==
    LET found == ImageFor(images, key)
    IN  IF c.has_topology_image /\ found # {} /\ (\A e \in found : e.exists)
        THEN InsertTopologyImage(dc, CHOOSE e \in found : TRUE, key)
        ELSE IF c.has_topology_image
             THEN [doc |-> GlobalReplace(dc, TOPOLOGY_IMAGE, NoImageText),
                   logs |-> <<Log("INFO", key)>>]
             ELSE [doc |-> dc, logs |-> <<>>]

(***************************************************************************)
(* compress_docx (app.py 153-209).  A file is its size and what its bytes  *)
(* are: the ones doc.save wrote, the recompressed archive, or a part of    *)
(* the recompressed archive.  Sizes are counted in megabytes.              *)
(***************************************************************************)
MaxSizeMb == 1

\* where an operation of the try block raises
Faults ==
    {"none", "mkdtemp", "extract", "recompress", "getsize", "copy_open", "copy_write",
     "copy_stat"}

SavedFile(size) == [bytes |-> "saved", size |-> size]

\* the value compress_docx returns
CompressReturn(flag, orig_size, new_size) ==
    [returned |-> TRUE, compressed |-> flag, orig_size |-> orig_size, new_size |-> new_size]

\* shutil.copy2(temp_docx, docx_path): the destination is opened for
\* writing, which empties it, the bytes are written, then the file times
\* are copied
Copy2(file, env) ==
    CASE env.fault = "copy_open" -> file
      [] env.fault = "copy_write" -> [bytes |-> "partial", size |-> env.written]
      [] OTHER -> [bytes |-> "recompressed", size |-> env.new_size]

\* compress_docx(docx_path, max_size_mb): the file afterwards and the value
\* returned.  env.new_size is the size of the archive written at
\* compresslevel 9, env.fault the operation that raises.
CompressDocx(file, max_size_mb, env) ==
    LET original_size == file.size
    IN  IF original_size <= max_size_mb
        THEN [file |-> file, ret |-> CompressReturn(FALSE, original_size, original_size)]
        ELSE IF env.fault \in {"mkdtemp", "extract", "recompress", "getsize"}
        THEN [file |-> file, ret |-> CompressReturn(FALSE, original_size, original_size)]
        ELSE IF env.new_size < original_size
        THEN IF env.fault = "none"
             THEN [file |-> Copy2(file, env),
                   ret |-> CompressReturn(TRUE, original_size, Copy2(file, env).size)]
             ELSE [file |-> Copy2(file, env),
                   ret |-> CompressReturn(FALSE, original_size, original_size)]
        ELSE [file |-> file, ret |-> CompressReturn(TRUE, original_size, file.size)]

\* a failure branch that leaves the directory behind
TempDirLeftOnFailure(file, max_size_mb, env) ==
    IF file.size <= max_size_mb THEN "none"
    ELSE IF env.fault = "mkdtemp" THEN "none"
    ELSE IF env.fault = "none" THEN "removed"
    ELSE IF env.fault \in {"copy_open", "copy_write", "copy_stat"}
            /\ env.new_size >= file.size THEN "removed"
    ELSE "exists"

\* the temporary directory when compress_docx is left: never made for a
\* small file (171-172) or when mkdtemp raises (176, 'temp_dir' is not in
\* locals()); removed by line 201 on the normal path, by lines 207-208 when
\* a later operation of the try block raises
TempDir(file, max_size_mb, env) ==
    IF file.size <= max_size_mb THEN "none"
    ELSE IF env.fault = "mkdtemp" THEN "none"
    ELSE IF env.fault \in {"extract", "recompress", "getsize"} THEN "removed"
    ELSE IF env.new_size < file.size /\ env.fault # "none" THEN "removed"
    ELSE "removed"

(***************************************************************************)
(* compress_docx on its own: a saved file of any size, an archive size and *)
(* a fault.                                                                *)
(***************************************************************************)
InitCompress ==
    /\ pc = "cd_call"
    /\ \E size \in 0..MaxSize : docx = SavedFile(size)
    /\ \E new_size \in 0..MaxSize, fault \in Faults, written \in 0..MaxSize :
          /\ fault = "copy_write" => written < new_size
          /\ fault # "copy_write" => written = 0
          /\ disk = [saved_size |-> docx.size, new_size |-> new_size,
                     fault |-> fault, written |-> written]
    /\ compressed = NoReturn
    /\ rawA = <<>> /\ rawB = <<>> /\ df = NoFrame /\ grouped = <<>> /\ doc = EmptyDoc
    /\ tpl = NoTemplate /\ placeholder = <<>> /\ replacement = <<>>
    /\ cfg = NoCfg /\ sheet = NoSheet /\ current = 0 /\ generated_files = <<>>
    /\ outdir = NoDir /\ zip = NoZip /\ result = NoResult
    /\ logs = <<>> /\ topology_images = {}
    /\ temp_dir = "none" /\ StoresIdle

CD_Compress ==
    /\ pc = "cd_call"
    /\ docx' = CompressDocx(docx, MaxSizeMb, disk).file
    /\ temp_dir' = TempDir(docx, MaxSizeMb, disk)
    /\ compressed' = CompressDocx(docx, MaxSizeMb, disk).ret
    /\ pc' = "cd_done"
    /\ UNCHANGED <<rawA, rawB, cfg, sheet, df, grouped, current, doc, placeholder,
                   replacement, generated_files, outdir, zip, result, tpl, logs,
                   topology_images, web_vars, disk>>

NextCompress == CD_Compress

SpecCompress == InitCompress /\ [][NextCompress]_vars

(***************************************************************************)
(* generate_documents: the run, one action per step of the driver.         *)
(***************************************************************************)
TodayStr == <<"06-Nov">>
ChangeTimeText == <<"23:00 06 Nov 2026 - 05:00 06 Dec 2026">>
AllRegion == <<"All region">>

TableCols == {Len(ScopeCfg.columns_mapping), Len(ScopeCfg.columns_mapping) + 1}

InitialSheets ==
    {[readable |-> TRUE, header |-> ReqCols, rows |-> rs] : rs \in SheetRows}
    \cup {[readable |-> TRUE, header |-> h, rows |-> <<SheetRow(<<"A">>, <<"T">>, <<"h">>)>>] :
             h \in Headers}
    \cup {[readable |-> FALSE, header |-> {}, rows |-> <<>>]}

\* the templates of the plain scenario: the data table in its two widths
\* with its left-over rows
PlainTemplates == {TemplateDoc(cols, n) : cols \in TableCols, n \in 0..MaxTplRows}

\* a template whose only table has a header row without the keyword
NoKeywordTemplate ==
    [TemplateDoc(2, 1) EXCEPT
        !.tables[1].rows[1] = <<TextCell(<<"Ring">>), TextCell(<<"Node">>)>>]

ImageLayouts == {"body", "body_twice", "row", "body_and_row", "textbox"}

ImagePara == <<TOPOLOGY_IMAGE>>

\* a table of two rows of two cells; the placeholder is in both cells of
\* the first row and in the first cell of the second
ImageTable ==
    [cols |-> 2,
     rows |-> <<<<ImagePara, ImagePara>>, <<ImagePara, TextCell(<<"x">>)>>>>]

\* a template with the image placeholder in body paragraphs, in the cells
\* of a second table, or split over the runs of a paragraph of a text box
ImageTemplate(layout) ==
    LET base == TemplateDoc(2, 1)
    IN  CASE layout = "body" -> [base EXCEPT !.body = @ \o <<ImagePara>>]
          [] layout = "body_twice" -> [base EXCEPT !.body = @ \o <<ImagePara, ImagePara>>]
          [] layout = "row" -> [base EXCEPT !.tables = @ \o <<ImageTable>>]
          [] layout = "body_and_row" ->
                 [base EXCEPT !.body = @ \o <<ImagePara>>, !.tables = @ \o <<ImageTable>>]
          [] layout = "textbox" ->
                 [base EXCEPT !.floating =
                     @ \o <<<<<<"{{">>, <<"TOPOLOGY_IMAGE">>, <<"}}">>>>>>]

\* a table whose header cells hold the keyword only when put together
\* without the separator
SplitKeywordTable ==
    [cols |-> 2,
     rows |-> <<<<TextCell(<<"Ho">>), TextCell(<<"st">>)>>, OldRow(2)>>]

\* the data table in its wider form, after the data table of the template
SecondDataTable == [cols |-> 3, rows |-> <<HeaderRow(3), OldRow(3)>>]

\* templates with several tables: two tables with the keyword, led or not
\* by a table without it
SeveralTablesTemplate(led) ==
    [TemplateDoc(2, 1) EXCEPT
        !.tables = (IF led THEN <<SplitKeywordTable>> ELSE <<>>)
                      \o @ \o <<SecondDataTable>>]

Templates ==
    PlainTemplates \cup {NoKeywordTemplate} \cup {ImageTemplate(l) : l \in ImageLayouts}
       \cup {SeveralTablesTemplate(led) : led \in BOOLEAN}

\* what the file system does with the saved documents of a run
SmallDisk == [saved_size |-> 1, new_size |-> 1, fault |-> "none", written |-> 0]

PipelineDisks ==
    {SmallDisk,
     [saved_size |-> 2, new_size |-> 1, fault |-> "none", written |-> 0],
     [saved_size |-> 2, new_size |-> 2, fault |-> "none", written |-> 0],
     [saved_size |-> 2, new_size |-> 1, fault |-> "extract", written |-> 0]}

\* the sheets of the scenarios with images, other templates or big files
ScenarioRows ==
    {<<SheetRow(<<"A">>, <<"T">>, <<"h">>)>>,
     <<SheetRow(<<"A">>, <<"T">>, <<"h">>), SheetRow(<<"B">>, <<"V">> \o DOC_DATE, <<"g">>)>>,
     <<SheetRow(<<"B">>, <<"V">> \o DOC_DATE, <<"g">>), SheetRow(<<"A">>, <<"T">>, <<"h">>),
       SheetRow(<<"A", " ">>, <<" ">>, NaN)>>}

\* every sheet is run with the plain scope and the plain templates (the
\* longest sheets with the templates that have the most left-over rows);
\* the failing runs and the runs with images, other templates or big files
\* take a few sheets each
Init ==
    /\ pc = "start"
    /\ cfg \in {ScopeCfg, ImageScopeCfg, NoCfg}
    /\ sheet \in InitialSheets
    /\ cfg = NoCfg => sheet = [readable |-> TRUE, header |-> ReqCols, rows |-> <<>>]
    /\ \E d \in Templates : tpl = [ok |-> TRUE, doc |-> d]
    /\ (cfg = NoCfg \/ ~sheet.readable \/ sheet.header # ReqCols)
          => tpl.doc = TemplateDoc(Len(ScopeCfg.columns_mapping), 0)
    /\ topology_images \in TopologyMaps
    /\ disk \in PipelineDisks
    /\ (cfg = NoCfg \/ ~sheet.readable \/ sheet.header # ReqCols)
          => (topology_images = {} /\ disk = SmallDisk)
    /\ (cfg = ImageScopeCfg \/ topology_images # {} \/ disk # SmallDisk
            \/ tpl.doc \notin PlainTemplates)
          => (sheet.readable /\ sheet.header = ReqCols /\ sheet.rows \in ScenarioRows)
    /\ (Len(sheet.rows) = MaxRows /\ sheet.rows \notin ScenarioRows)
          => tpl.doc \in {TemplateDoc(cols, MaxTplRows) : cols \in TableCols}
    /\ df = NoFrame /\ grouped = <<>> /\ current = 0 /\ doc = EmptyDoc
    /\ placeholder = <<>> /\ replacement = <<>>
    /\ rawA = <<>> /\ rawB = <<>>
    /\ generated_files = <<>> /\ outdir = NoDir /\ zip = NoZip /\ result = NoResult
    /\ logs = <<>> /\ docx = NoFile /\ compressed = NoReturn
    /\ temp_dir = "none" /\ StoresIdle

ErrorResult(kind) == [returned |-> TRUE, zip_path |-> FALSE, error |-> kind, count |-> 0]

\* the current (group_name, group_data) of the loop
Group == grouped[current]

\* app.py 244-271: scope lookup, then the output folder is created
GD_Start ==
    /\ pc = "start"
    /\ IF ~cfg.found
       THEN /\ result' = ErrorResult("scope")
            /\ logs' = Append(logs, Log("ERROR", <<"scope">>))
            /\ pc' = "done"
            /\ UNCHANGED outdir
       ELSE /\ outdir' = [exists |-> TRUE, files |-> outdir.files]
            /\ logs' = logs \o <<Log("START", <<>>)>>
                            \o (IF topology_images # {} THEN <<Log("INFO", <<"images">>)>> ELSE <<>>)
                            \o <<Log("FOLDER", <<>>)>>
            /\ pc' = "read"
            /\ UNCHANGED result
    /\ UNCHANGED <<rawA, rawB, cfg, sheet, df, grouped, current, doc, placeholder,
                   replacement, generated_files, zip, tpl, topology_images, temp_dir, web_vars, docx,
                   disk, compressed>>

\* app.py 273-279: read_excel and strip of the header names
GD_ReadExcel ==
    /\ pc = "read"
    /\ IF ~sheet.readable
       THEN /\ result' = ErrorResult("excel")
            /\ logs' = Append(logs, Log("ERROR", <<"excel">>))
            /\ pc' = "done"
            /\ UNCHANGED df
       ELSE /\ df' = [cols |-> {Strip(h) : h \in sheet.header},
                      rows |-> [i \in DOMAIN sheet.rows |->
                                   [c \in {Strip(h) : h \in sheet.header} |->
                                       sheet.rows[i][c]]]]
            /\ logs' = Append(logs, Log("EXCEL", <<>>))
            /\ pc' = "validate"
            /\ UNCHANGED result
    /\ UNCHANGED <<rawA, rawB, cfg, sheet, grouped, current, doc, placeholder,
                   replacement, generated_files, outdir, zip, tpl, topology_images, temp_dir, web_vars,
                   docx, disk, compressed>>

\* req_cols (app.py 281)
RequiredColumns(c) ==
    {c.columns_mapping[i] : i \in DOMAIN c.columns_mapping} \cup {c.ring_col, c.title_col}

\* app.py 281-287
GD_ValidateColumns ==
    /\ pc = "validate"
    /\ IF RequiredColumns(cfg) \ df.cols # {}
       THEN /\ result' = ErrorResult("columns")
            /\ logs' = Append(logs, Log("ERROR", <<"columns">>))
            /\ pc' = "done"
       ELSE /\ pc' = "group"
            /\ logs' = Append(logs, Log("OK", <<>>))
            /\ UNCHANGED result
    /\ UNCHANGED <<rawA, rawB, cfg, sheet, df, grouped, current, doc, placeholder,
                   replacement, generated_files, outdir, zip, tpl, topology_images, temp_dir, web_vars,
                   docx, disk, compressed>>

\* app.py 289-303
GD_GroupBy ==
    /\ pc = "group"
    /\ df' = NormalizeRingCol(df, cfg.ring_col)
    /\ grouped' = GroupBy(df', cfg.ring_col)
    /\ logs' = logs \o <<Log("DEBUG", <<>>), Log("INFO", <<"groups">>)>>
    /\ current' = 0
    /\ generated_files' = <<>>
    /\ pc' = "loop"
    /\ UNCHANGED <<rawA, rawB, cfg, sheet, doc, placeholder, replacement,
                   outdir, zip, result, tpl, topology_images, temp_dir, web_vars, docx, disk, compressed>>

\* api_delete_template (app.py 580-586) removes the template file while a run
\* is between two groups
DeleteTemplate ==
    /\ pc = "loop"
    /\ tpl.ok
    /\ tpl' = [tpl EXCEPT !.ok = FALSE]
    /\ UNCHANGED <<pc, rawA, rawB, cfg, sheet, df, grouped, current, doc,
                   placeholder, replacement, generated_files, outdir, zip, result,
                   logs, topology_images, temp_dir, web_vars, docx, disk, compressed>>

\* a failed load that skips the group and goes on
TemplateErrorPcSkip == "loop"

\* return None, "Template tidak ditemukan", logs, 0 (app.py 316)
TemplateErrorPc == "done"

\* a loop that keeps the document object of the previous group
DocumentReused(t, held) == IF held = EmptyDoc THEN t.doc ELSE held

\* doc = Document(cfg['template_file']) (app.py 313): a new object read from
\* the file, whatever object the loop variable held
Document(t, held) == t.doc

\* app.py 305-316: next group, Document(cfg['template_file'])
GD_LoadTemplate ==
    /\ pc = "loop"
    /\ current < Len(grouped)
    /\ current' = current + 1
    /\ IF tpl.ok
       THEN /\ doc' = Document(tpl, doc)
            /\ logs' = Append(logs, Log("GROUP", grouped[current'].key))
            /\ pc' = "subst_title"
            /\ UNCHANGED result
       ELSE /\ result' = ErrorResult("template")
            /\ logs' = logs \o <<Log("GROUP", grouped[current'].key),
                                 Log("ERROR", <<"template">>)>>
            /\ pc' = TemplateErrorPc
            /\ UNCHANGED doc
    /\ UNCHANGED <<rawA, rawB, cfg, sheet, df, grouped, placeholder, replacement,
                   generated_files, outdir, zip, tpl, topology_images, temp_dir, web_vars, docx, disk,
                   compressed>>

\* the variables no substitution step of the loop body changes
SubstitutionFrame ==
    UNCHANGED <<rawA, rawB, cfg, sheet, df, grouped, current, placeholder,
                replacement, generated_files, outdir, zip, result, tpl,
                topology_images, temp_dir, web_vars, docx, disk, compressed>>

\* app.py 318-319
GD_SubstituteTitleDate ==
    /\ pc = "subst_title"
    /\ doc' = GlobalReplace(GlobalReplace(doc, DOC_TITLE, DocTitle(df, cfg, Group)),
                            DOC_DATE, TodayStr)
    /\ pc' = "subst_time"
    /\ UNCHANGED logs
    /\ SubstitutionFrame

\* app.py 321-324
GD_SubstituteTimeWindow ==
    /\ pc = "subst_time"
    /\ doc' = GlobalReplace(doc, CHANGE_TIME, ChangeTimeText)
    /\ pc' = "subst_scope"
    /\ UNCHANGED logs
    /\ SubstitutionFrame

\* app.py 326-355: the scope has no region_col and no ring_121_col
GD_SubstituteScopeText ==
    /\ pc = "subst_scope"
    /\ doc' = GlobalReplace(GlobalReplace(doc, CHANGE_SCOPE, AllRegion),
                            CHANGE_RING_121, Group.key)
    /\ pc' = "image"
    /\ UNCHANGED logs
    /\ SubstitutionFrame

\* app.py 357-394
GD_TopologyImage ==
    /\ pc = "image"
    /\ doc' = TopologyImageStep(doc, cfg, topology_images, Group.key).doc
    /\ logs' = logs \o TopologyImageStep(doc, cfg, topology_images, Group.key).logs
    /\ pc' = "table"
    /\ SubstitutionFrame

\* app.py 396-435
GD_MaterializeTable ==
    /\ pc = "table"
    /\ doc' = MaterializeTable(doc, cfg, df, Group)
    /\ pc' = "save"
    /\ UNCHANGED logs
    /\ SubstitutionFrame

\* a driver that collects the path right after the save
AfterSavePcCollect == "collect"

\* the statement after doc.save is the call of compress_docx (app.py 439-441)
AfterSavePc == "compress"

\* a save that leaves an existing file of that name as it is
SaveDocumentKeepExisting(files, name, d) == files @@ (name :> d)

\* doc.save(output_path): the file of that name is created or overwritten
SaveDocument(files, name, d) == (name :> d) @@ files

\* app.py 437-439
GD_Save ==
    /\ pc = "save"
    /\ outdir' = [outdir EXCEPT !.files = SaveDocument(@, OutputName(df, cfg, Group), doc)]
    /\ docx' = SavedFile(disk.saved_size)
    /\ pc' = AfterSavePc
    /\ UNCHANGED <<rawA, rawB, cfg, sheet, df, grouped, current, doc, placeholder,
                   replacement, generated_files, zip, result, tpl, logs,
                   topology_images, temp_dir, web_vars, disk, compressed>>

\* app.py 441-445: the saved file is recompressed when it is over 1 MB; the
\* document in it stays as it is
GD_Compress ==
    /\ pc = "compress"
    /\ docx' = CompressDocx(docx, MaxSizeMb, disk).file
    /\ temp_dir' = TempDir(docx, MaxSizeMb, disk)
    /\ compressed' = CompressDocx(docx, MaxSizeMb, disk).ret
    /\ logs' = IF compressed'.compressed
               THEN Append(logs, Log("COMPRESS", OutputName(df, cfg, Group)))
               ELSE logs
    /\ pc' = "collect"
    /\ UNCHANGED <<rawA, rawB, cfg, sheet, df, grouped, current, doc, placeholder,
                   replacement, generated_files, outdir, zip, result, tpl,
                   topology_images, web_vars, disk>>

\* app.py 447
GD_Collect ==
    /\ pc = "collect"
    /\ generated_files' = Append(generated_files, OutputName(df, cfg, Group))
    /\ pc' = "loop"
    /\ UNCHANGED <<rawA, rawB, cfg, sheet, df, grouped, current, doc, placeholder,
                   replacement, outdir, zip, result, tpl, logs, topology_images, temp_dir, web_vars,
                   docx, disk, compressed>>

\* app.py 449-458: every collected path is written into the archive under
\* its base name, with the content the file has now
GD_Zip ==
    /\ pc = "loop"
    /\ current >= Len(grouped)
    /\ zip' = [exists |-> TRUE,
               entries |-> [i \in DOMAIN generated_files |->
                               [name |-> generated_files[i],
                                doc |-> outdir.files[generated_files[i]]]]]
    /\ logs' = logs \o <<Log("ZIP", <<>>), Log("DONE", <<>>)>>
    /\ result' = [returned |-> TRUE, zip_path |-> TRUE, error |-> "",
                  count |-> Len(generated_files)]
    /\ pc' = "done"
    /\ UNCHANGED <<rawA, rawB, cfg, sheet, df, grouped, current, doc, placeholder,
                   replacement, generated_files, outdir, tpl, topology_images, temp_dir, web_vars,
                   docx, disk, compressed>>

Next ==
    \/ GD_Start \/ GD_ReadExcel \/ GD_ValidateColumns \/ GD_GroupBy
    \/ DeleteTemplate \/ GD_LoadTemplate
    \/ GD_SubstituteTitleDate \/ GD_SubstituteTimeWindow \/ GD_SubstituteScopeText
    \/ GD_TopologyImage \/ GD_MaterializeTable \/ GD_Save \/ GD_Compress
    \/ GD_Collect \/ GD_Zip

Spec == Init /\ [][Next]_vars

(***************************************************************************)
(* Claims about key normalization and substitution.                        *)
(***************************************************************************)

\* C2: normalizing a grouping key is idempotent, and two raw keys that
\* differ only in surrounding whitespace or in the length of internal
\* whitespace runs normalize to the same key and fall into the same group.
C2_NormalizationIdempotentAndCoalescing ==
    pc = "key_done" =>
        /\ df.rows[1][RingCol] = df.rows[2][RingCol]
        /\ \A i \in 1..2 : NormalizeKey(df.rows[i][RingCol]) = df.rows[i][RingCol]
        /\ Len(grouped) = 1
        /\ grouped[1].idx = <<1, 2>>

\* two words separated by a padded internal run, grouped with the unpadded key
C2_Witness ==
    /\ pc = "key_done"
    /\ Len(rawB) >= Len(rawA) + 2
    /\ Len(rawA) = 3
    /\ rawA[1] \notin Whitespace /\ rawA[2] \in Whitespace /\ rawA[3] \notin Whitespace
    /\ rawB[1] \notin Whitespace /\ rawB[Len(rawB)] \notin Whitespace
    /\ Len(grouped) = 1

\* number of characters of the paragraph before run i
RECURSIVE RunOffset(_, _)
RunOffset(para, i) == IF i <= 1 THEN 0 ELSE RunOffset(para, i - 1) + Len(para[i - 1])

\* an occurrence of ph in the paragraph's text has characters in each of
\* three adjacent runs, and in no other run
SpreadOverThreeRuns(para, ph) ==
    \E i \in 1..(Len(para) - 2), k \in 1..Len(Concat(para)) :
        /\ OccursAt(Concat(para), ph, k)
        /\ RunOffset(para, i) < k
        /\ k <= RunOffset(para, i) + Len(para[i])
        /\ para[i + 1] # <<>>
        /\ RunOffset(para, i + 2) < k + Len(ph) - 1
        /\ k + Len(ph) - 1 <= RunOffset(para, i + 2) + Len(para[i + 2])

\* C3: after global_replace(doc, P, X), for every document that contained P
\* anywhere (body, table cell, header/footer, floating container; whole in
\* one run or split across runs), no text of the document contains P any
\* more and at least one location contains X.
C3_SubstitutionExhaustive ==
    (pc = "gr_done" /\ \E para \in AllParas(tpl.doc) : Contains(ParaText(para), placeholder))
        => /\ \A para \in AllParas(doc) : ~Contains(ParaText(para), placeholder)
           /\ \E para \in AllParas(doc) : Contains(ParaText(para), replacement)

SplitSpanReplaced(old, new) ==
    /\ Concat(new) = StrReplace(Concat(old), placeholder, replacement)
    /\ Len(new) = Len(old)
    /\ \A i \in 2..Len(new) : new[i] = <<>>

\* C4: a placeholder spread over 3 adjacent runs of a body or table-cell
\* paragraph is replaced as a single token by
\* replace_placeholder_in_paragraph: the runs' concatenation is the original
\* one with the placeholder replaced, all runs are still there and every run
\* after the first is empty.
C4_SplitSpanReplacedAsToken ==
    /\ (pc = "gr_tables" /\ tpl.doc.body # <<>>
            /\ SpreadOverThreeRuns(tpl.doc.body[1], placeholder))
        => SplitSpanReplaced(tpl.doc.body[1], doc.body[1])
    /\ (pc = "gr_body_xml" /\ tpl.doc.tables # <<>>
            /\ SpreadOverThreeRuns(tpl.doc.tables[1].rows[1][1], placeholder))
        => SplitSpanReplaced(tpl.doc.tables[1].rows[1][1], doc.tables[1].rows[1][1])

(***************************************************************************)
(* Claims about generate_documents.                                        *)
(***************************************************************************)
\* the groupby has been computed
Grouped ==
    /\ pc \notin {"start", "read", "validate", "group"}
    /\ result.error \notin {"scope", "excel", "columns"}

\* the in-memory document holds the filled table of the current group
TableFilled ==
    /\ pc \in {"save", "compress", "collect"}
    /\ TargetTable(tpl.doc, cfg.table_keyword) = 1

RowsOf(g) == {g.idx[r] : r \in DOMAIN g.idx}

\* C1: grouping is a partition of the source rows: every row, blank keys
\* included, is in exactly one group, and the groups' rows together are the
\* input rows.
C1_GroupingIsPartition ==
    Grouped =>
        /\ Len(df.rows) = Len(sheet.rows)
        /\ \A i \in 1..Len(sheet.rows) :
              Cardinality({g \in DOMAIN grouped : i \in RowsOf(grouped[g])}) = 1
        /\ \A g \in DOMAIN grouped :
              /\ RowsOf(grouped[g]) \subseteq 1..Len(sheet.rows)
              /\ Cardinality(RowsOf(grouped[g])) = Len(grouped[g].idx)

\* a sheet with a blank key cell and two more groups
C1_Witness ==
    /\ Grouped
    /\ Len(grouped) >= 3
    /\ \E i \in DOMAIN sheet.rows : sheet.rows[i][RingCol] = NaN
    /\ \E g \in DOMAIN grouped : grouped[g].key = <<>> /\ grouped[g].idx # <<>>

\* what a record's field shows as: a missing value shows as nothing
ShownValue(v) == IF v = NaN \/ Lower(v) = <<"n", "a", "n">> THEN <<>> ELSE v

\* C5: after table materialization the target table is the template's header
\* row, unchanged, followed by exactly one row per record of the group in
\* the records' row order, whatever body rows the template table had.
C5_TableRowCount ==
    TableFilled =>
        LET t == doc.tables[1]
        IN  /\ Len(t.rows) = 1 + Len(Group.idx)
            /\ t.rows[1] = tpl.doc.tables[1].rows[1]
            /\ \A r \in 1..Len(Group.idx) :
                  /\ r + 1 \in DOMAIN t.rows
                  /\ CellText(t.rows[r + 1][t.cols]) = ShownValue(df.rows[Group.idx[r]][HostCol])
            /\ \A r, q \in DOMAIN Group.idx : r < q => Group.idx[r] < Group.idx[q]

\* a template table with two left-over rows filled for a group of another size
C5_Witness ==
    /\ pc = "save"
    /\ Len(tpl.doc.tables[1].rows) = 3
    /\ Len(Group.idx) \in {1, 3}
    /\ Len(doc.tables[1].rows) = 1 + Len(Group.idx)
    /\ CellText(doc.tables[1].rows[2][1]) # <<"old">>

\* C6: in every appended row, with len(column_mapping)+1 cells cell 0 holds
\* the record's 1-based ordinal within its group and column_mapping[i] is in
\* cell i+1; with len(column_mapping) cells there is no ordinal and
\* column_mapping[i] is in cell i.
C6_ColumnMappingShift ==
    TableFilled =>
        \A r \in 1..Len(Group.idx) :
            LET cells == doc.tables[1].rows[r + 1]
                rec == df.rows[Group.idx[r]]
                mapping == cfg.columns_mapping
            IN  /\ Len(cells) \in {Len(mapping), Len(mapping) + 1}
                /\ Len(cells) = Len(mapping) + 1 =>
                      /\ CellText(cells[1]) = <<Digits[r + 1]>>
                      /\ \A i \in DOMAIN mapping :
                            CellText(cells[i + 1]) = ShownValue(rec[mapping[i]])
                /\ Len(cells) = Len(mapping) =>
                      \A i \in DOMAIN mapping :
                          CellText(cells[i]) = ShownValue(rec[mapping[i]])

\* a group of two records in a table that has the ordinal column
C6_Witness ==
    /\ pc = "save"
    /\ doc.tables[1].cols = Len(cfg.columns_mapping) + 1
    /\ Len(Group.idx) >= 2
    /\ CellText(doc.tables[1].rows[3][1]) = <<"2">>
    /\ CellText(doc.tables[1].rows[3][2]) = Group.key

\* C7: after a successful run over G groups the output folder holds G
\* distinct document files and the archive holds G distinct entries.
C7_OneDocumentPerGroup ==
    (pc = "done" /\ result.zip_path) =>
        /\ Cardinality(DOMAIN outdir.files) = Len(grouped)
        /\ Len(zip.entries) = Len(grouped)
        /\ Cardinality({zip.entries[i].name : i \in DOMAIN zip.entries}) = Len(grouped)

\* C8: groups are processed, and their documents saved and collected, in
\* ascending lexicographic order of the normalized grouping key.
C8_GroupsInAscendingKeyOrder ==
    Grouped =>
        /\ \A i, j \in DOMAIN grouped : i < j => LexLess(grouped[i].key, grouped[j].key)
        /\ current <= Len(grouped)
        /\ Len(generated_files) <= Len(grouped)
        /\ \A i \in DOMAIN generated_files :
              generated_files[i] = OutputName(df, cfg, grouped[i])
        /\ zip.exists =>
              \A i \in DOMAIN zip.entries :
                  zip.entries[i].name = OutputName(df, cfg, grouped[i])

\* a sheet whose rows are not in key order, archived as "", "A", "B"
C8_Witness ==
    /\ pc = "done"
    /\ zip.exists
    /\ Len(sheet.rows) = 3
    /\ sheet.rows[1][RingCol] = <<"B">>
    /\ sheet.rows[2][RingCol] = NaN
    /\ Len(grouped) = 3
    /\ grouped[1].key = <<>> /\ grouped[2].key = <<"A">> /\ grouped[3].key = <<"B">>
    /\ Len(zip.entries) = 3

\* C9: when a required column is absent from the header set, the run returns
\* an error having produced no output at all: no document file, no archive,
\* no output directory.
C9_NoOutputOnMissingColumn ==
    (pc = "done" /\ result.error = "columns") =>
        /\ ~outdir.exists
        /\ DOMAIN outdir.files = {}
        /\ ~zip.exists
        /\ ~result.zip_path

\* C10: the archive exists only if every group's document was loaded, filled
\* and saved; a run that ends with a fatal error returns no archive path,
\* has written no archive, and processes no group after the failing one.
C10_NoPartialArchive ==
    /\ zip.exists =>
          /\ result.error = ""
          /\ current = Len(grouped)
          /\ Len(generated_files) = Len(grouped)
          /\ \A i \in DOMAIN generated_files : generated_files[i] \in DOMAIN outdir.files
    /\ result.error # "" =>
          /\ pc = "done"
          /\ result.returned
          /\ ~result.zip_path
          /\ ~zip.exists
    /\ result.error = "template" => Len(generated_files) = current - 1

\* the template fails to load at the second of three groups
C10_Witness ==
    /\ pc = "done"
    /\ result.error = "template"
    /\ Len(grouped) = 3
    /\ current = 2
    /\ Len(generated_files) = 1
    /\ ~zip.exists

(***************************************************************************)
(* Claims about non-fatal errors, images, compression and the order of     *)
(* the driver's steps.                                                     *)
(***************************************************************************)
\* the placeholders the driver substitutes in every document
DriverPlaceholders == {DOC_TITLE, DOC_DATE, CHANGE_TIME, CHANGE_SCOPE, CHANGE_RING_121}

\* no table of the template has the keyword in its header row
NoTargetTable == cfg.found /\ TargetTable(tpl.doc, cfg.table_keyword) = 0

\* the substitution steps of the loop body applied to the template
Substituted(dc, g) ==
    GlobalReplace(
        GlobalReplace(
            GlobalReplace(
                GlobalReplace(
                    GlobalReplace(dc, DOC_TITLE, DocTitle(df, cfg, g)),
                    DOC_DATE, TodayStr),
                CHANGE_TIME, ChangeTimeText),
            CHANGE_SCOPE, AllRegion),
        CHANGE_RING_121, g.key)

\* C11: when no table's header row contains the scope's table_keyword, the
\* document is still saved with all placeholder substitutions applied,
\* every table of it is as in the template (no row removed or added), and
\* the run goes on with the next group up to the archive.
C11_TableNotFoundIsNonFatal ==
    NoTargetTable =>
        /\ result.error \in {"", "template"}
        /\ pc \in {"save", "compress", "collect"} =>
              /\ doc = TopologyImageStep(Substituted(tpl.doc, Group), cfg,
                                         topology_images, Group.key).doc
              /\ doc.tables = tpl.doc.tables
              /\ \A para \in AllParas(doc), ph \in DriverPlaceholders :
                    ~Contains(ParaText(para), ph)
        /\ pc \in {"compress", "collect"} =>
              /\ OutputName(df, cfg, Group) \in DOMAIN outdir.files
              /\ outdir.files[OutputName(df, cfg, Group)] = doc
        /\ (pc = "loop" /\ result.error = "") => Len(generated_files) = current
        /\ (pc = "done" /\ result.error = "") =>
              /\ zip.exists
              /\ result.count = Len(grouped)

\* the second group's document is saved after the first group's table was
\* not found either
C11_Witness ==
    /\ NoTargetTable
    /\ pc = "collect"
    /\ current = 2
    /\ Len(generated_files) = 1
    /\ Len(doc.tables[1].rows) = 2
    /\ CellText(doc.tables[1].rows[2][1]) = <<"old">>
    /\ tpl.doc.body[1] = <<DOC_TITLE>>
    /\ ParaText(doc.body[1]) = <<"V">> \o TodayStr

\* the current group is past the step at the given positions of the loop body
PastImageStep == pc \in {"table", "save", "compress", "collect"}
PastTableStep == pc \in {"save", "compress", "collect"}
PastCompressStep == pc = "collect"

\* the non-fatal errors the current group has run into so far
TableNotFound == PastTableStep /\ NoTargetTable

ImageInsertionFailed ==
    /\ PastImageStep
    /\ cfg.has_topology_image
    /\ \E e \in ImageFor(topology_images, Group.key) : e.exists /\ ~e.valid
    /\ BodyHits(tpl.doc) # {} \/ TableHits(tpl.doc) # {}

CompressionFailed ==
    /\ PastCompressStep
    /\ disk.saved_size > MaxSizeMb
    /\ disk.fault # "none"

NonFatalErrors ==
    (IF TableNotFound THEN 1 ELSE 0) + (IF ImageInsertionFailed THEN 1 ELSE 0)
        + (IF CompressionFailed THEN 1 ELSE 0)

\* the warning entries of the log about a group
WarningsAbout(key) == {i \in DOMAIN logs : logs[i].tag = "WARN" /\ logs[i].about = key}

\* C12: every non-fatal error of a run (table not found for a document,
\* topology image insertion failure, compression failure) adds a warning
\* entry to the log list of the run: the log holds at least one warning
\* about the current group for each error the group has run into.
C12_NonFatalErrorsAreLogged ==
    (Grouped /\ current >= 1 /\ pc \in {"table", "save", "compress", "collect"})
        => Cardinality(WarningsAbout(Group.key)) >= NonFatalErrors

\* the text "nan" in any letter case
IsNanText(t) == Lower(t) = <<"n", "a", "n">>

BodyTreeParas(d) ==
    {d.body[i] : i \in DOMAIN d.body} \cup CellParas(d)
        \cup {d.floating[i] : i \in DOMAIN d.floating}

\* C14: a placeholder that occurs only inside a header or footer variant of
\* a section, and nowhere in the body, is replaced by global_replace: the
\* header/footer text afterwards contains the replacement and no longer the
\* placeholder.
C14_HeaderOnlyPlaceholderReplaced ==
    (/\ pc = "gr_done"
     /\ \E i \in DOMAIN tpl.doc.headers :
           Contains(ParaText(tpl.doc.headers[i]), placeholder)
     /\ \A para \in BodyTreeParas(tpl.doc) : ~Contains(ParaText(para), placeholder))
        => /\ \A i \in DOMAIN doc.headers :
                 ~Contains(ParaText(doc.headers[i]), placeholder)
           /\ \E i \in DOMAIN doc.headers :
                 Contains(ParaText(doc.headers[i]), replacement)

\* the scope has images and none is supplied for the current group: the
\* mapping has no entry for the group key, or the mapped file does not exist
NoImageSupplied ==
    /\ Grouped /\ PastImageStep
    /\ cfg.has_topology_image
    /\ \A e \in ImageFor(topology_images, Group.key) : ~e.exists

\* C15: for a scope with has_topology_image=true and a group for which no
\* image is supplied, the document holds the fallback text in place of
\* every {{TOPOLOGY_IMAGE}} placeholder (no placeholder is left, and the
\* fallback text is there if the template had one) and no picture.
C15_FallbackTextWithoutImage ==
    NoImageSupplied =>
        /\ doc.pictures = <<>>
        /\ \A para \in AllParas(doc) : ~HasImagePlaceholder(para)
        /\ (\E para \in AllParas(tpl.doc) : HasImagePlaceholder(para))
              => \E para \in AllParas(doc) : Contains(ParaText(para), NoImageText)

\* the file doc.save wrote, before compress_docx is called on it
OriginalFile == SavedFile(disk.saved_size)

\* C16: after compress_docx returns, the file at docx_path is either
\* byte-identical to the original (always so when the size is at or below
\* the threshold, when extraction or recompression failed, or when the
\* result is not strictly smaller) or a strictly smaller recompressed
\* version; and the call returns a value whatever operation raised.
C16_CompressNeverMakesWorse ==
    pc = "cd_done" =>
        /\ compressed.returned
        /\ \/ docx = OriginalFile
           \/ docx.bytes = "recompressed" /\ docx.size < OriginalFile.size
        /\ (\/ OriginalFile.size <= MaxSizeMb
            \/ disk.fault \in {"mkdtemp", "extract", "recompress"}
            \/ disk.new_size >= OriginalFile.size) => docx = OriginalFile

\* the document the loop body makes of the template for group g alone
DocumentOf(g) ==
    MaterializeTable(
        TopologyImageStep(Substituted(tpl.doc, g), cfg, topology_images, g.key).doc,
        cfg, df, g)

\* the document being emitted holds the current group's values only
OwnValuesOnly ==
    /\ doc = DocumentOf(Group)
    /\ ParaText(doc.body[1]) = StrReplace(DocTitle(df, cfg, Group), DOC_DATE, TodayStr)
    /\ ParaText(doc.floating[1]) = Group.key
    /\ \A i \in DOMAIN doc.pictures :
          \E e \in ImageFor(topology_images, Group.key) : doc.pictures[i].image = e.path
    /\ TargetTable(tpl.doc, cfg.table_keyword) = 1 =>
          /\ Len(doc.tables[1].rows) = 1 + Len(Group.idx)
          /\ \A r \in 1..Len(Group.idx) :
                CellText(doc.tables[1].rows[r + 1][doc.tables[1].cols - 1]) = Group.key

\* C17: each group starts from a fresh copy of the template and the
\* template file is never written: no step changes the template's content,
\* and the document saved for a group holds no title, scope text, image or
\* table row of another group.
C17_FreshTemplatePerGroup ==
    /\ [][tpl'.doc = tpl.doc]_vars
    /\ [](pc \in {"save", "compress", "collect"} => OwnValuesOnly)
    /\ [](pc = "compress" => outdir.files[OutputName(df, cfg, Group)] = doc)

\* the second group's document, with its own picture, after the first
\* group's document got a picture too
C17_Witness ==
    /\ pc = "collect"
    /\ current = 2
    /\ Len(generated_files) = 1
    /\ Len(outdir.files[generated_files[1]].pictures) = 1
    /\ Len(doc.pictures) = 1
    /\ doc.pictures[1].image = <<"topology of ", "B">>
    /\ Len(doc.tables[1].rows) = 2
    /\ tpl.doc.pictures = <<>>

\* the title has been substituted into the current group's document
PastTitleStep ==
    pc \in {"subst_time", "subst_scope", "image", "table", "save", "compress", "collect"}

\* C18: each placeholder occurrence is replaced exactly once and the
\* inserted value appears verbatim in the emitted document: the paragraph
\* that held {{DOC_TITLE}} reads as the group's title, character by
\* character, from the title substitution on, whatever the title contains.
C18_InsertedValueVerbatim ==
    (PastTitleStep /\ tpl.doc.body[1] = <<DOC_TITLE>>)
        => ParaText(doc.body[1]) = DocTitle(df, cfg, Group)

\* an image is supplied for the current group and the image step has run
ImageSupplied ==
    /\ Grouped /\ PastImageStep
    /\ cfg.has_topology_image
    /\ \E e \in ImageFor(topology_images, Group.key) : e.exists

\* the picture sits at the first paragraph of the template that holds the
\* image placeholder, body paragraphs first, then table cells
AtFirstPlaceholder(p) ==
    IF BodyHits(tpl.doc) # {}
    THEN p.loc = "body" /\ p.c = Least(BodyHits(tpl.doc))
    ELSE /\ TableHits(tpl.doc) # {}
         /\ p.loc = "table"
         /\ p.t = Least(TableHits(tpl.doc))
         /\ p.r = Least(RowHits(tpl.doc.tables[p.t]))
         /\ p.c = Least(CellHits(tpl.doc.tables[p.t].rows[p.r]))

\* C19: when an image is supplied for a group, at most one picture is
\* embedded in the group's document, at the first paragraph containing
\* {{TOPOLOGY_IMAGE}} (body paragraphs before table cells), for every
\* template layout.
C19_SingleImagePerDocument ==
    ImageSupplied =>
        /\ Len(doc.pictures) <= 1
        /\ \A i \in DOMAIN doc.pictures : AtFirstPlaceholder(doc.pictures[i])

\* the steps of the loop body in the order of the claim, from the template
\* load (which leaves the driver at "subst_title") to the collect
StepOrder ==
    <<"loop", "subst_title", "subst_time", "subst_scope", "image", "table",
      "save", "compress", "collect">>

StepIndex(p) == CHOOSE i \in DOMAIN StepOrder : StepOrder[i] = p

InLoopBody(p) == \E i \in 2..Len(StepOrder) : StepOrder[i] = p

\* a step of the driver inside the loop moves to the next position of
\* StepOrder, the collect moves back to the loop head, and a load either
\* starts the next group, with all groups before it collected, or ends the
\* run
OrderedStep ==
    /\ (InLoopBody(pc) /\ pc # "collect") =>
          /\ pc' = StepOrder[StepIndex(pc) + 1]
          /\ current' = current
          /\ generated_files' = generated_files
    /\ pc = "collect" =>
          /\ pc' = "loop"
          /\ current' = current
          /\ Len(generated_files') = current
    /\ (pc = "loop" /\ pc' # "loop") =>
          \/ /\ pc' = "subst_title"
             /\ current' = current + 1
             /\ Len(generated_files) = current
          \/ pc' = "done"

\* C20: per group the driver's steps happen strictly in the order load
\* template, substitute title and date, substitute time window, substitute
\* scope text, substitute-or-strip image, materialize table, save,
\* compress-if-oversize, collect, each at most once per group; the table is
\* materialized on the document that has all substitutions applied, and
\* the next group's load happens only after the document was collected.
C20_DriverStepOrder ==
    /\ [][OrderedStep]_vars
    /\ [](pc = "table" =>
            doc = TopologyImageStep(Substituted(tpl.doc, Group), cfg,
                                    topology_images, Group.key).doc)

\* the second group at its collect step: its picture is inserted, its
\* table filled, its file saved and recompressed, and the first group's
\* document is the only one collected
C20_Witness ==
    /\ pc = "collect"
    /\ current = 2
    /\ Len(generated_files) = 1
    /\ Len(doc.pictures) = 1
    /\ Len(doc.tables[1].rows) = 2
    /\ OutputName(df, cfg, Group) \in DOMAIN outdir.files
    /\ docx.bytes = "recompressed"
    /\ compressed.compressed
    /\ logs[Len(logs)].tag = "COMPRESS"

(***************************************************************************)
(* Table selection among the tables of a document (app.py 396-404).        *)
(***************************************************************************)
\* the header row text of table t of a document holds the keyword
KeywordInHeader(dc, t) ==
    /\ Len(dc.tables[t].rows) > 0
    /\ Contains(JoinCells(dc.tables[t].rows[1]), cfg.table_keyword)

\* table t is the first table, in document order, with the keyword
FirstKeywordTable(dc, t) ==
    /\ t \in DOMAIN dc.tables
    /\ KeywordInHeader(dc, t)
    /\ \A u \in 1..(t - 1) : ~KeywordInHeader(dc, u)

SavedGroups ==
    IF pc \in {"compress", "collect", "loop", "done"} THEN current
    ELSE IF current = 0 THEN 0 ELSE current - 1

\* groups i < j of the run share their output name
Collide(i, j) ==
    /\ i \in DOMAIN grouped /\ j \in DOMAIN grouped
    /\ i < j
    /\ OutputName(df, cfg, grouped[i]) = OutputName(df, cfg, grouped[j])

\* the last saved group with the output name of group i
LastSavedWithNameOf(i) ==
    CHOOSE j \in i..SavedGroups :
        /\ OutputName(df, cfg, grouped[j]) = OutputName(df, cfg, grouped[i])
        /\ \A k \in (j + 1)..SavedGroups :
              OutputName(df, cfg, grouped[k]) # OutputName(df, cfg, grouped[i])

\* C22: when the sanitized titles of two groups of a run coincide, the
\* document of the group processed later overwrites the earlier one: the
\* output folder holds one file of that name, its content is the later
\* group's document, and the earlier group's document is kept nowhere,
\* neither in the folder nor in the archive (looked at after every save
\* and at the end of the run).
C22_LaterGroupOverwrites ==
    (Grouped /\ result.error = "" /\ pc \in {"compress", "done"}) =>
        /\ \A i \in 1..SavedGroups :
              /\ OutputName(df, cfg, grouped[i]) \in DOMAIN outdir.files
              /\ outdir.files[OutputName(df, cfg, grouped[i])]
                    = DocumentOf(grouped[LastSavedWithNameOf(i)])
        /\ Cardinality(DOMAIN outdir.files)
              = Cardinality({OutputName(df, cfg, grouped[i]) : i \in 1..SavedGroups})
        /\ \A i, j \in 1..SavedGroups :
              Collide(i, j) =>
                 /\ \A n \in DOMAIN outdir.files :
                       outdir.files[n] # DocumentOf(grouped[i])
                 /\ zip.exists =>
                       \A e \in DOMAIN zip.entries :
                          zip.entries[e].doc # DocumentOf(grouped[i])

\* a finished run over groups 'A' (title 'T') and 'B' (title 'T:'): one
\* file 'T', holding the document of 'B', under both archive entries
C22_Witness ==
    /\ pc = "done" /\ zip.exists
    /\ Len(grouped) = 2
    /\ Collide(1, 2)
    /\ DocTitle(df, cfg, grouped[1]) # DocTitle(df, cfg, grouped[2])
    /\ DOMAIN outdir.files = {<<"T">>}
    /\ outdir.files[<<"T">>] = DocumentOf(grouped[2])
    /\ Len(zip.entries) = 2
    /\ zip.entries[1].doc = DocumentOf(grouped[2])

(***************************************************************************)
(* The title of a group's document (app.py 305-308).                       *)
(***************************************************************************)
\* the value of the title field of the first record of group g
FirstTitle(g) == df.rows[g.idx[1]][cfg.title_col]

\* a title value that is absent (NaN) or blank (empty or only whitespace)
AbsentOrBlank(t) == t = NaN \/ Strip(t) = <<>>

\* C23: the title of a group's document is the title value of the group's
\* first record when that value is present and non-blank, and the fallback
\* "Doc - {key}" when the value is absent or blank; the saved file is named
\* after it.
C23_TitleOrFallback ==
    Grouped =>
        \A i \in DOMAIN generated_files :
              generated_files[i]
                 = SanitizeFilename(IF AbsentOrBlank(FirstTitle(grouped[i]))
                                    THEN <<"Doc - ">> \o grouped[i].key
                                    ELSE FirstTitle(grouped[i]))

IsCag(hostname) == Len(hostname) > 0 /\ hostname[1] \in {"AG-", "C-"}

\* [h.strip() for h in chain.split(',') if h.strip()], on the fields that
\* split(',') gives
RECURSIVE Hostnames(_)
Hostnames(fields) ==
    IF fields = <<>> THEN <<>>
    ELSE IF Strip(Head(fields)) = <<>> THEN Hostnames(Tail(fields))
         ELSE <<Strip(Head(fields))>> \o Hostnames(Tail(fields))

\* the first position of pag in the chain, 0 for pag_pos = None
PagPos(hostnames, pag) ==
    LET at == {i \in DOMAIN hostnames : hostnames[i] = pag}
    IN  IF at = {} THEN 0 ELSE CHOOSE i \in at : \A j \in at : i <= j

\* the search to the left: the position of the first prefixed hostname
\* below pag_pos, 0 for left_cag = None
LeftCag(hostnames, pag_pos) ==
    LET at == {i \in 1..(pag_pos - 1) : IsCag(hostnames[i])}
    IN  IF at = {} THEN 0 ELSE CHOOSE i \in at : \A j \in at : i >= j

\* the search to the right, 0 for right_cag = None
RightCag(hostnames, pag_pos) ==
    LET at == {i \in (pag_pos + 1)..Len(hostnames) : IsCag(hostnames[i])}
    IN  IF at = {} THEN 0 ELSE CHOOSE i \in at : \A j \in at : i <= j

ReturnCag(hostname) == [returned |-> TRUE, found |-> TRUE, host |-> hostname]
ReturnNone == [returned |-> TRUE, found |-> FALSE, host |-> <<>>]

\* a choice that takes the right one when the distances are equal
NearestInChainPreferRight(hostnames, pag_pos) ==
    LET left == LeftCag(hostnames, pag_pos)
        right == RightCag(hostnames, pag_pos)
    IN  IF left # 0 /\ right # 0
        THEN IF pag_pos - left < right - pag_pos
             THEN ReturnCag(hostnames[left]) ELSE ReturnCag(hostnames[right])
        ELSE IF left # 0 THEN ReturnCag(hostnames[left])
        ELSE IF right # 0 THEN ReturnCag(hostnames[right])
        ELSE ReturnNone

\* app.py 1426-1455 for a chain that holds pag at pag_pos: the value
\* returned, or None when the loop goes on to the next chain
NearestInChain(hostnames, pag_pos) ==
    LET left == LeftCag(hostnames, pag_pos)
        right == RightCag(hostnames, pag_pos)
    IN  IF left # 0 /\ right # 0
        THEN IF pag_pos - left <= right - pag_pos
             THEN ReturnCag(hostnames[left]) ELSE ReturnCag(hostnames[right])
        ELSE IF left # 0 THEN ReturnCag(hostnames[left])
        ELSE IF right # 0 THEN ReturnCag(hostnames[right])
        ELSE ReturnNone

\* find_nearest_cag(pag_hostname, topo_data); a chain is [is_str, fields],
\* the empty string has no fields
RECURSIVE FindNearestCag(_, _)
FindNearestCag(pag, chains) ==
    IF chains = <<>> THEN ReturnNone
    ELSE LET chain == Head(chains)
             hostnames == Hostnames(chain.fields)
             pag_pos == PagPos(hostnames, pag)
         IN  IF ~chain.is_str \/ chain.fields = <<>> THEN FindNearestCag(pag, Tail(chains))
             ELSE IF pag_pos = 0 THEN FindNearestCag(pag, Tail(chains))
             ELSE IF NearestInChain(hostnames, pag_pos).found
                  THEN NearestInChain(hostnames, pag_pos)
                  ELSE FindNearestCag(pag, Tail(chains))

\* the longest first chain of a lookup
MaxChainLen == 3

\* the fields of a chain: hostnames, plain or prefixed, padded or not, and a
\* field of blanks
ChainFields ==
    {<<"P">>, <<"AG-", "1">>, <<" ", "C-", "2", " ">>, <<"X">>, <<" ">>}

ChainsUpTo(n) ==
    {[is_str |-> TRUE, fields |-> f] : f \in SeqsUpTo(ChainFields, n)}
       \cup {[is_str |-> FALSE, fields |-> <<>>]}

\* the chains put in front of another: not a string, the empty string,
\* chains with 'P' and no prefixed hostname, a chain with 'P' next to one
LeadingChains ==
    {[is_str |-> FALSE, fields |-> <<>>],
     [is_str |-> TRUE, fields |-> <<>>],
     [is_str |-> TRUE, fields |-> <<<<"P">>>>],
     [is_str |-> TRUE, fields |-> <<<<"P">>, <<"X">>>>],
     [is_str |-> TRUE, fields |-> <<<<" ", "C-", "2", " ">>, <<"P">>>>]}

\* one chain, or a leading chain followed by one
TopoData ==
    {<<c>> : c \in ChainsUpTo(MaxChainLen)}
       \cup {<<c, d>> : c \in LeadingChains, d \in ChainsUpTo(MaxChainLen)}

PagHostnames == {<<"P">>, <<"X">>, <<"AG-", "1">>, <<"P", "AG-", "1">>}

InitCag ==
    /\ pc = "cag_call"
    /\ pag_hostname \in PagHostnames
    /\ topo_data \in TopoData
    /\ nearest_cag = NoCag
    /\ history = <<>> /\ config = {} /\ uploads = {} /\ req = <<>> /\ clock = 0
    /\ rawA = <<>> /\ rawB = <<>> /\ df = NoFrame /\ grouped = <<>> /\ doc = EmptyDoc
    /\ tpl = NoTemplate /\ placeholder = <<>> /\ replacement = <<>>
    /\ temp_dir = "none"
    /\ cfg = NoCfg /\ sheet = NoSheet /\ current = 0 /\ generated_files = <<>>
    /\ outdir = NoDir /\ zip = NoZip /\ result = NoResult
    /\ logs = <<>> /\ topology_images = {} /\ docx = NoFile /\ disk = NoDisk
    /\ compressed = NoReturn

FNC_Call ==
    /\ pc = "cag_call"
    /\ nearest_cag' = FindNearestCag(pag_hostname, topo_data)
    /\ pc' = "cag_done"
    /\ UNCHANGED <<rawA, rawB, cfg, sheet, df, grouped, current, doc, placeholder,
                   replacement, generated_files, outdir, zip, result, tpl, logs,
                   topology_images, docx, disk, compressed, temp_dir, history,
                   config, uploads, req, clock, pag_hostname, topo_data>>

NextCag == FNC_Call

SpecCag == InitCag /\ [][NextCag]_vars

\* the hostnames of chain k of the lookup
ChainHosts(k) == Hostnames(topo_data[k].fields)

\* the positions of chain k, other than pag's first one, with a prefixed
\* hostname
CagPositions(k) ==
    {i \in DOMAIN ChainHosts(k) : i # PagPos(ChainHosts(k), pag_hostname) /\ IsCag(ChainHosts(k)[i])}

\* chain k contains pag and a prefixed hostname on either side of it
Usable(k) ==
    /\ topo_data[k].is_str
    /\ PagPos(ChainHosts(k), pag_hostname) # 0
    /\ CagPositions(k) # {}

Distance(k, i) ==
    LET p == PagPos(ChainHosts(k), pag_hostname)
    IN  IF i < p THEN p - i ELSE i - p

\* position i of chain k is the nearest prefixed one, the left one on a tie
Nearest(k, i) ==
    /\ i \in CagPositions(k)
    /\ \A j \in CagPositions(k) :
          \/ Distance(k, i) < Distance(k, j)
          \/ Distance(k, i) = Distance(k, j) /\ i <= j

HistoryCap == 50

\* the most runs of a behaviour
MaxEntries == 52

\* the entry add_to_history builds; the n-th entry created carries the n-th
\* id and timestamp
Entry(n, status) == [id |-> n, timestamp |-> n, status |-> status]

\* an insert at the end of the list
InsertLast(list, entry) == Append(list, entry)

\* history["history"].insert(0, entry)
InsertFirst(list, entry) == <<entry>> \o list

\* a list that is never cut
TruncateNever(list) == list

\* history["history"][:50]
Truncate(list) == SubSeq(list, 1, IF Len(list) < HistoryCap THEN Len(list) ELSE HistoryCap)

\* the list add_to_history saves, given the list it loaded
WithEntry(loaded, entry) == Truncate(InsertFirst(loaded, entry))

\* what a finished operation leaves for its caller
Returned(op, entry) == [op |-> op, entry |-> entry]

NoEntry == Entry(0, "none")

InitHistory ==
    /\ pc = "serving"
    /\ history = <<>>
    /\ clock = 0
    /\ req = Returned("none", NoEntry)
    /\ config = {} /\ uploads = {}
    /\ pag_hostname = <<>> /\ topo_data = <<>> /\ nearest_cag = NoCag
    /\ rawA = <<>> /\ rawB = <<>> /\ df = NoFrame /\ grouped = <<>> /\ doc = EmptyDoc
    /\ tpl = NoTemplate /\ placeholder = <<>> /\ replacement = <<>>
    /\ temp_dir = "none"
    /\ cfg = NoCfg /\ sheet = NoSheet /\ current = 0 /\ generated_files = <<>>
    /\ outdir = NoDir /\ zip = NoZip /\ result = NoResult
    /\ logs = <<>> /\ topology_images = {} /\ docx = NoFile /\ disk = NoDisk
    /\ compressed = NoReturn

HistoryFrame ==
    UNCHANGED <<pc, rawA, rawB, cfg, sheet, df, grouped, current, doc, placeholder,
                replacement, generated_files, outdir, zip, result, tpl, logs,
                topology_images, docx, disk, compressed, temp_dir, config,
                uploads, pag_hostname, topo_data, nearest_cag>>

\* add_to_history, run from load to save with no other request in between
AddToHistory ==
    /\ clock < MaxEntries
    /\ clock' = clock + 1
    /\ history' = WithEntry(history, Entry(clock + 1, "success"))
    /\ req' = Returned("add", Entry(clock + 1, "success"))
    /\ HistoryFrame

\* api_clear_history: save_history({"history": []})
ClearHistory ==
    /\ history' = <<>>
    /\ req' = Returned("clear", NoEntry)
    /\ clock' = clock
    /\ HistoryFrame

NextHistory == AddToHistory \/ ClearHistory

SpecHistory == InitHistory /\ [][NextHistory]_vars

\* C26 as stated: the history log is append-only, an entry recorded by
\* add_to_history is still in the stored history after any number of later
\* runs (no later call of add_to_history removes a stored entry).
C26_AppendOnly ==
    [][req'.op = "add" =>
          \A i \in DOMAIN history : \E j \in DOMAIN history' : history'[j] = history[i]]_vars

\* C26, amended: a later run keeps the 49 newest stored entries, each moved
\* one place down, and drops what was at place 50; an entry is therefore
\* still stored after up to 49 later runs and gone after the 50th (or after
\* a clear, which empties the list).
C26_KeptUntilFiftyNewer ==
    [][/\ req'.op = "add" =>
             /\ Len(history') = (IF Len(history) < HistoryCap THEN Len(history) + 1
                                 ELSE HistoryCap)
             /\ \A i \in DOMAIN history :
                   IF i < HistoryCap
                   THEN history'[i + 1] = history[i]
                   ELSE \A j \in DOMAIN history' : history'[j] # history[i]
       /\ req'.op = "clear" => history' = <<>>]_vars

\* after 51 runs: the first entry is gone, the second is the oldest kept
C26_Witness ==
    /\ clock = HistoryCap + 1
    /\ req.op = "add"
    /\ Len(history) = HistoryCap
    /\ history[HistoryCap].id = 2
    /\ \A i \in DOMAIN history : history[i].id # 1

(***************************************************************************)
(* /api/parse-rings (app.py 1015-1034) against the group keys.             *)
(***************************************************************************)
\* df[ring_col].str.strip(): NaN stays NaN
StripRingCol(d, col) ==
    [d EXCEPT !.rows = [i \in DOMAIN d.rows |->
                            [d.rows[i] EXCEPT ![col] = IF @ = NaN THEN NaN ELSE Strip(@)]]]

\* dropna().unique(), then the names that are empty or read 'nan' are left
\* out
UniqueRings(d, col) ==
    {r \in {d.rows[i][col] : i \in DOMAIN d.rows} \ {NaN} :
        r # <<>> /\ Lower(r) # <<"n", "a", "n">>}

\* the 'rings' list of the response: the names, sorted
ParseRings(d, col) == SortKeys(UniqueRings(StripRingCol(d, col), col))

\* the sheet of the two raw cells
RawFrame == [cols |-> {RingCol}, rows |-> <<KeyRow(rawA), KeyRow(rawB)>>]

\* the ring names listed for the sheet
ListedRings == {ParseRings(RawFrame, RingCol)[i] : i \in DOMAIN ParseRings(RawFrame, RingCol)}

\* the non-blank group keys of the same sheet
NonBlankGroupKeys == {grouped[i].key : i \in DOMAIN grouped} \ {<<>>}

\* C27: the ring names /api/parse-rings lists for a sheet are exactly the
\* non-blank group keys generate_documents derives from it: an image
\* uploaded under a listed name is found under a group key, and every
\* non-blank group has a listed name.
C27_ListedRingsAreGroupKeys ==
    pc = "key_done" => ListedRings = NonBlankGroupKeys

(***************************************************************************)
(* Concurrent requests on the JSON stores (app.py 29-70, 595-601): each    *)
(* request loads the whole file, changes its copy and writes the whole     *)
(* file back; no lock is taken, and the server handles requests in         *)
(* threads.                                                                *)
(***************************************************************************)
Requests == {1, 2}

\* a stored scope
Scope(key, data) == [key |-> key, data |-> data]

\* config["scopes"][scope_key] = data
WithScope(scopes, key, data) == {s \in scopes : s.key # key} \cup {Scope(key, data)}

\* the locals of a request: what it does, where it is, what it loaded
Request(op, key) ==
    [op |-> op, at |-> "start", key |-> key, loaded_config |-> {},
     loaded_history |-> <<>>, entry |-> NoEntry]

InitStores ==
    /\ pc = "serving"
    /\ config \in {{}, {Scope("k0", "d0")}}
    /\ \E n \in {0, 1} :
          /\ clock = n
          /\ history = [i \in 1..n |-> Entry(i, "success")]
    /\ \E op1, op2 \in {"save_scope", "add"} :
          req = (1 :> Request(op1, "k1")) @@ (2 :> Request(op2, "k2"))
    /\ uploads = {}
    /\ pag_hostname = <<>> /\ topo_data = <<>> /\ nearest_cag = NoCag
    /\ rawA = <<>> /\ rawB = <<>> /\ df = NoFrame /\ grouped = <<>> /\ doc = EmptyDoc
    /\ tpl = NoTemplate /\ placeholder = <<>> /\ replacement = <<>>
    /\ temp_dir = "none"
    /\ cfg = NoCfg /\ sheet = NoSheet /\ current = 0 /\ generated_files = <<>>
    /\ outdir = NoDir /\ zip = NoZip /\ result = NoResult
    /\ logs = <<>> /\ topology_images = {} /\ docx = NoFile /\ disk = NoDisk
    /\ compressed = NoReturn

StoresFrame ==
    UNCHANGED <<pc, rawA, rawB, cfg, sheet, df, grouped, current, doc, placeholder,
                replacement, generated_files, outdir, zip, result, tpl, logs,
                topology_images, docx, disk, compressed, temp_dir, uploads,
                pag_hostname, topo_data, nearest_cag>>

\* api_save_scope, line 598: config = load_config()
SS_Load(p) ==
    /\ req[p].op = "save_scope" /\ req[p].at = "start"
    /\ req' = [req EXCEPT ![p].at = "loaded", ![p].loaded_config = config]
    /\ UNCHANGED <<config, history, clock>>
    /\ StoresFrame

\* api_save_scope, lines 599-601: the copy gets the scope and is written
SS_Save(p) ==
    /\ req[p].op = "save_scope" /\ req[p].at = "loaded"
    /\ config' = WithScope(req[p].loaded_config, req[p].key, "d")
    /\ req' = [req EXCEPT ![p].at = "returned"]
    /\ UNCHANGED <<history, clock>>
    /\ StoresFrame

\* add_to_history, lines 55-64: history = load_history(), entry = {...}
AH_Load(p) ==
    /\ req[p].op = "add" /\ req[p].at = "start"
    /\ clock' = clock + 1
    /\ req' = [req EXCEPT ![p].at = "loaded", ![p].loaded_history = history,
                          ![p].entry = Entry(clock + 1, "success")]
    /\ UNCHANGED <<config, history>>
    /\ StoresFrame

\* add_to_history, lines 65-69: insert, cut, save_history, return
AH_Save(p) ==
    /\ req[p].op = "add" /\ req[p].at = "loaded"
    /\ history' = WithEntry(req[p].loaded_history, req[p].entry)
    /\ req' = [req EXCEPT ![p].at = "returned"]
    /\ UNCHANGED <<config, clock>>
    /\ StoresFrame

NextStores ==
    \E p \in Requests : SS_Load(p) \/ SS_Save(p) \/ AH_Load(p) \/ AH_Save(p)

SpecStores == InitStores /\ [][NextStores]_vars

\* C28: under any interleaving of concurrent requests the JSON stores lose
\* no update: once two save requests for different keys have both returned,
\* both scopes are in config.json, and once two add_to_history calls have
\* both returned, both entries are in history.json.
C28_NoLostUpdate ==
    \A p, q \in Requests :
        (p # q /\ req[p].at = "returned" /\ req[q].at = "returned") =>
            /\ (req[p].op = "save_scope" /\ req[q].op = "save_scope") =>
                  \A r \in {p, q} : \E s \in config : s.key = req[r].key
            /\ (req[p].op = "add" /\ req[q].op = "add") =>
                  \A r \in {p, q} : \E i \in DOMAIN history : history[i] = req[r].entry

(***************************************************************************)
(* /api/generate (app.py 506-561).                                         *)
(***************************************************************************)
\* werkzeug's secure_filename: path separators and parent references go
SecureFilename(name) == SelectSeq(name, LAMBDA c : c \notin {"/", "../"})

\* file.filename.endswith(('.xlsx', '.xls'))
IsExcelName(name) == Len(name) > 0 /\ name[Len(name)] \in {".xlsx", ".xls"}

\* characters that are neither word characters, whitespace nor '-'
NotWordSpaceDash == UnsafeChars \cup {".", ",", "(", ")", "#"}

\* re.sub(r'[^\w\s-]', '', ring_name).replace(' ', '_')
SafeRingName(ring_name) ==
    StrReplace(SelectSeq(ring_name, LAMBDA c : c \notin NotWordSpaceDash), <<" ">>, <<"_">>)

\* the path an uploaded topology image is saved under
TopoPath(key, image_name) ==
    <<"topo_">> \o SafeRingName(StrReplace(key, <<"topology_">>, <<>>))
                \o <<"_">> \o SecureFilename(image_name)

\* the names a spreadsheet is uploaded under
UploadNames ==
    {<<>>, <<"data", ".txt">>, <<"data", ".xlsx">>, <<"../", "data", ".xls">>}

\* the topology_* parts of a request: the form key and the file name, empty
\* when the part carries no file
ImageParts ==
    {[key |-> <<"topology_", "A">>, name |-> <<"a", ".png">>],
     [key |-> <<"topology_", "A">>, name |-> <<>>],
     [key |-> <<"topology_", "B", " ", "1">>, name |-> <<"b", ".png">>]}

\* the parts in the order request.files yields them
RECURSIVE PartsInOrder(_)
PartsInOrder(S) ==
    IF S = {} THEN <<>>
    ELSE LET part == CHOOSE x \in S : \A y \in S \ {x} : LexLess(x.key \o x.name, y.key \o y.name)
         IN  <<part>> \o PartsInOrder(S \ {part})

\* saved_image_paths after the loop over the parts (app.py 530-541)
RECURSIVE SavedImagePaths(_)
SavedImagePaths(parts) ==
    IF parts = <<>> THEN <<>>
    ELSE (IF Head(parts).name # <<>>
          THEN <<TopoPath(Head(parts).key, Head(parts).name)>> ELSE <<>>)
         \o SavedImagePaths(Tail(parts))

\* what the call of generate_documents gives: a zip path, an error result,
\* or an exception of a statement outside its try blocks (doc.save, 439)
Raised == [returned |-> FALSE, zip_path |-> FALSE, error |-> "raised", count |-> 0]

Generated(count) == [returned |-> TRUE, zip_path |-> TRUE, error |-> "", count |-> count]

GenerateOutcomes ==
    {Generated(1), Generated(2), ErrorResult("scope"), ErrorResult("columns"), Raised}

\* a request and the locals of its handler; `before` is the history and the
\* upload folder the request found
GenerateRequest(has_file, name, parts, h, u) ==
    [has_file |-> has_file, name |-> name, parts |-> PartsInOrder(parts),
     filename |-> <<>>, saved_image_paths |-> <<>>,
     before |-> [history |-> h, uploads |-> u]]

InitGenerate ==
    /\ pc = "ag_request"
    /\ \E n \in {0, 1} :
          /\ clock = n
          /\ history = [i \in 1..n |-> Entry(i, "success")]
    /\ uploads \in {{}, {<<"temp_", "data", ".xlsx">>}}
    /\ \E has_file \in BOOLEAN, name \in UploadNames, parts \in SUBSET ImageParts :
          /\ ~has_file => (name = <<>> /\ parts = {})
          /\ ~IsExcelName(name) => parts = {}
          /\ req = GenerateRequest(has_file, name, parts, history, uploads)
    /\ config = {}
    /\ pag_hostname = <<>> /\ topo_data = <<>> /\ nearest_cag = NoCag
    /\ rawA = <<>> /\ rawB = <<>> /\ df = NoFrame /\ grouped = <<>> /\ doc = EmptyDoc
    /\ tpl = NoTemplate /\ placeholder = <<>> /\ replacement = <<>>
    /\ temp_dir = "none"
    /\ cfg = NoCfg /\ sheet = NoSheet /\ current = 0 /\ generated_files = <<>>
    /\ outdir = NoDir /\ zip = NoZip /\ result = NoResult
    /\ logs = <<>> /\ topology_images = {} /\ docx = NoFile /\ disk = NoDisk
    /\ compressed = NoReturn

GenerateFrame ==
    UNCHANGED <<rawA, rawB, cfg, sheet, df, grouped, current, doc, placeholder,
                replacement, generated_files, outdir, zip, tpl, logs,
                topology_images, docx, disk, compressed, temp_dir, config,
                pag_hostname, topo_data, nearest_cag>>

\* app.py 507-518: upload validation
AG_Validate ==
    /\ pc = "ag_request"
    /\ pc' = IF req.has_file /\ req.name # <<>> /\ IsExcelName(req.name)
             THEN "ag_upload" ELSE "ag_rejected"
    /\ UNCHANGED <<req, uploads, history, clock, result>>
    /\ GenerateFrame

\* app.py 520-522: the spreadsheet is saved in the upload folder
AG_SaveSpreadsheet ==
    /\ pc = "ag_upload"
    /\ req' = [req EXCEPT !.filename = SecureFilename(req.name)]
    /\ uploads' = uploads \cup {SecureFilename(req.name)}
    /\ pc' = "ag_images"
    /\ UNCHANGED <<history, clock, result>>
    /\ GenerateFrame

\* app.py 526-541: every topology_* part with a file is saved
AG_SaveImages ==
    /\ pc = "ag_images"
    /\ req' = [req EXCEPT !.saved_image_paths = SavedImagePaths(req.parts)]
    /\ uploads' = uploads \cup {SavedImagePaths(req.parts)[i] :
                                   i \in DOMAIN SavedImagePaths(req.parts)}
    /\ pc' = "ag_generate"
    /\ UNCHANGED <<history, clock, result>>
    /\ GenerateFrame

\* app.py 543: the call of generate_documents; an exception it raises
\* leaves the handler at once
AG_Generate ==
    /\ pc = "ag_generate"
    /\ \E outcome \in GenerateOutcomes :
          /\ result' = outcome
          /\ pc' = IF outcome = Raised THEN "ag_failed" ELSE "ag_cleanup"
    /\ UNCHANGED <<req, uploads, history, clock>>
    /\ GenerateFrame

\* app.py 545-549: the uploaded files are removed
AG_Cleanup ==
    /\ pc = "ag_cleanup"
    /\ uploads' = (uploads \ {req.filename})
                     \ {req.saved_image_paths[i] : i \in DOMAIN req.saved_image_paths}
    /\ pc' = "ag_history"
    /\ UNCHANGED <<req, history, clock, result>>
    /\ GenerateFrame

\* app.py 551-561: the run is recorded and the response returned
AG_History ==
    /\ pc = "ag_history"
    /\ clock' = clock + 1
    /\ history' = WithEntry(history, Entry(clock + 1, IF result.zip_path THEN "success"
                                                     ELSE "error"))
    /\ pc' = "ag_responded"
    /\ UNCHANGED <<req, uploads, result>>
    /\ GenerateFrame

NextGenerate ==
    \/ AG_Validate \/ AG_SaveSpreadsheet \/ AG_SaveImages \/ AG_Generate
    \/ AG_Cleanup \/ AG_History

SpecGenerate == InitGenerate /\ [][NextGenerate]_vars

\* the request passed upload validation and the handler has ended
EndedAfterValidation == pc \in {"ag_responded", "ag_failed"}

\* C29: every /api/generate request that passes upload validation ends,
\* whatever the outcome of generation (success, error result, or a failure
\* inside a group), with exactly one new history entry of status success or
\* error and with the uploaded spreadsheet and every uploaded topology
\* image removed from the upload folder.
C29_OneEntryAndCleanUploads ==
    EndedAfterValidation =>
        /\ Len(history) = Len(req.before.history) + 1
        /\ history[1].status \in {"success", "error"}
        /\ Tail(history) = req.before.history
        /\ req.filename \notin uploads
        /\ \A i \in DOMAIN req.saved_image_paths : req.saved_image_paths[i] \notin uploads
        /\ uploads = req.before.uploads

\* the stored entries are in order of creation, newest first
NewestFirst ==
    \A i \in 1..(Len(history) - 1) :
        /\ history[i].id > history[i + 1].id
        /\ history[i].timestamp >= history[i + 1].timestamp

\* C30: after any sequence of add_to_history and clear-history operations
\* the stored history holds at most 50 entries, ordered newest first, and
\* right after add_to_history returns the entry it created is at index 0.
C30_CappedNewestFirst ==
    /\ [](Len(history) <= HistoryCap /\ NewestFirst)
    /\ [][req'.op = "add" => (history' # <<>> /\ history'[1] = req'.entry)]_vars

\* the 52nd entry on top of a full list, from which two entries were cut
C30_Witness ==
    /\ req.op = "add"
    /\ clock = HistoryCap + 2
    /\ Len(history) = HistoryCap
    /\ history[1] = req.entry
    /\ history[1].id = HistoryCap + 2
    /\ history[HistoryCap].id = 3

====
